---------------------------- MODULE Spec2Model ----------------------------
(***************************************************************************)
(* SnowflakeDB storage engine: the core API (set / get / remove / exist),  *)
(* the lookup tables, the append-only-log (AOL) worker with its periodic   *)
(* flusher, and recovery from the backup files at startup.                 *)
(*                                                                         *)
(* JavaScript strings are sequences of one-character strings.  JavaScript  *)
(* values are records [t |-> type, v |-> payload] whose payload is always  *)
(* a sequence of characters (the decimal digits of a number, the           *)
(* characters of a string).  JavaScript objects used as dictionaries are   *)
(* functions whose DOMAIN is the set of own properties; reads that miss    *)
(* the own properties fall through to Object.prototype.                    *)
(***************************************************************************)
EXTENDS Integers, Sequences, FiniteSets, TLC

VARIABLES
    phase,                \* "stopped" | "running": is the process alive
    lookup_key,           \* SnowflakeCore.#lookup.key   (own properties)
    lookup_value,         \* SnowflakeCore.#lookup.value (own properties)
    trash,                \* SnowflakeCore.#lookup.trash
    cache,                \* SnowflakeCore.#cache: keys whose hash is memoized
    current_meid,         \* SnowflakeCore.#current_meid
    limits,               \* configuration: meids.size, memory.max_size and
                          \* persistent.backup_size_limit, in bytes
    channel,              \* messages posted to the AOL worker, not yet handled
    queue,                \* SnowflakeAol.#queue, in insertion order
    instructions_changed, \* SnowflakeAol.instructions_changed
    files,                \* the *.sfb files of the database directory, oldest first
    last,                 \* the last API call and what it returned
    acked,                \* per key: the outcome of the last successful set/remove of this run
    accepted,             \* the (key, value) pairs the worker took since its last write
    flushed,              \* what the last tick that wrote took from the queue, and what it wrote
    ticked,               \* a tick has run, with nothing in flight, since the last mutation
    snapshot,             \* what get returned for every key when the process stopped
    ops,                  \* number of API calls made so far
    runs,                 \* number of process starts so far
    cli,                  \* SnowflakeCLI.#configs: lockdown, max_login_attempt, cooldown
    now,                  \* Date.now() / 1000, the clock in seconds
    lockdown,             \* SnowflakeCLI.#lockdown: per subject, time and attempts
    sessions,             \* SnowflakeCLI.#sessions: per token, the session counter
    shells,               \* the SnowflakeShell of every connection slot
    failed,               \* per subject: the failed login attempts reported, and
                          \* the time of the last one
    lockdown_file         \* the .lockdown file: << >> when there is none, else
                          \* << the table that was written >>

coreVars == << phase, lookup_key, lookup_value, trash, cache, current_meid, limits,
               channel, queue, instructions_changed, files, last, acked, accepted,
               flushed, ticked, snapshot, ops, runs >>

shellVars == << cli, now, lockdown, sessions, shells, failed, lockdown_file >>

vars == << coreVars, shellVars >>

-----------------------------------------------------------------------------
(* Bounds of the model *)

MaxOps == 3
MaxRuns == 2
MaxRestarts == 2
MaxInFlight == 2

-----------------------------------------------------------------------------
(* Characters and strings *)

Letters == { "a", "b", "c", "d", "n", "o", "r", "s", "t", "u",
             "N", "T", "F" }
Digits == { "0", "1" }
\* the characters /[a-zA-Z0-9\-_]/ lets through, as far as the model's alphabet goes
KeyChars == Letters \cup Digits \cup { "-", "_" }
\* the characters /\s/ matches
SpaceChars == { " ", "\t", "\n" }

RECURSIVE Flatten(_)
Flatten(ss) == IF ss = << >> THEN << >> ELSE Head(ss) \o Flatten(Tail(ss))

\* Array.prototype.join
RECURSIVE Join(_, _)
Join(ss, sep) ==
    IF ss = << >> THEN << >>
    ELSE IF Len(ss) = 1 THEN ss[1]
    ELSE ss[1] \o sep \o Join(Tail(ss), sep)

\* String.prototype.split with a one-character separator
RECURSIVE SplitFrom(_, _, _)
SplitFrom(s, sep, cur) ==
    IF s = << >> THEN << cur >>
    ELSE IF Head(s) = sep THEN << cur >> \o SplitFrom(Tail(s), sep, << >>)
    ELSE SplitFrom(Tail(s), sep, Append(cur, Head(s)))

Split(s, sep) == SplitFrom(s, sep, << >>)

\* String.prototype.trim
RECURSIVE TrimLeft(_)
TrimLeft(s) ==
    IF s # << >> /\ Head(s) \in SpaceChars THEN TrimLeft(Tail(s)) ELSE s

RECURSIVE TrimRight(_)
TrimRight(s) ==
    IF s # << >> /\ s[Len(s)] \in SpaceChars
    THEN TrimRight(SubSeq(s, 1, Len(s) - 1)) ELSE s

Trim(s) == TrimRight(TrimLeft(s))

IsDigits(s) == \A i \in 1..Len(s) : s[i] \in Digits

RECURSIVE StripZeros(_)
StripZeros(s) ==
    IF Len(s) > 1 /\ Head(s) = "0" THEN StripZeros(Tail(s)) ELSE s

DigitVal(c) == IF c = "0" THEN 0 ELSE 1

RECURSIVE NumVal(_)
NumVal(s) ==
    IF s = << >> THEN 0 ELSE 10 * NumVal(SubSeq(s, 1, Len(s) - 1)) + DigitVal(s[Len(s)])

-----------------------------------------------------------------------------
(* JavaScript values *)

Undefined == [t |-> "undefined", v |-> << >>]
Null == [t |-> "null", v |-> << >>]
True == [t |-> "boolean", v |-> <<"t">>]
False == [t |-> "boolean", v |-> <<"f">>]
Num(digits) == [t |-> "number", v |-> digits]
Str(chars) == [t |-> "string", v |-> chars]

\* ToBoolean(x) = false
Falsy(x) ==
    \/ x.t \in {"undefined", "null"}
    \/ x = False
    \/ x.t = "number" /\ NumVal(x.v) = 0
    \/ x.t = "string" /\ x.v = << >>

\* msgpack.encode(value).length: nil, booleans and integers below 128 take one
\* byte, a string below 32 bytes takes one byte and its characters
toBufferLength(value) ==
    IF value.t = "string" THEN 1 + Len(value.v) ELSE 1

\* Object.prototype, as far as a read of obj[k] can tell: constructor is the
\* function Object, whose length is 1
ObjectFunction == [t |-> "function", length |-> 1]
constructor == << "c", "o", "n", "s", "t", "r", "u", "c", "t", "o", "r" >>
proto == << "_", "_", "p", "r", "o", "t", "o", "_", "_" >>
ObjectPrototype(k) ==
    IF k = constructor THEN ObjectFunction
    ELSE IF k = proto THEN [t |-> "object"]
    ELSE Undefined

\* obj[k]
JsGet(obj, k) == IF k \in DOMAIN obj THEN obj[k] ELSE ObjectPrototype(k)

\* obj[k] = x
JsPut(obj, k, x) == [p \in DOMAIN obj \cup {k} |-> IF p = k THEN x ELSE obj[p]]

EmptyObject == [t |-> "object"]

-----------------------------------------------------------------------------
(* SnowflakeCore: key sanitization and hashing *)

\* a variant of the trimming that takes one underscore off each end
TrimOneUnderscore(s) ==
    LET headless == IF s # << >> /\ Head(s) = "_" THEN Tail(s) ELSE s
    IN  IF headless # << >> /\ headless[Len(headless)] = "_"
        THEN SubSeq(headless, 1, Len(headless) - 1)
        ELSE headless

\* key.replace(/^_+|_+$/g, "")
RECURSIVE TrimUnderscores(_)
TrimUnderscores(s) ==
    IF s # << >> /\ Head(s) = "_" THEN TrimUnderscores(Tail(s))
    ELSE IF s # << >> /\ s[Len(s)] = "_"
         THEN TrimUnderscores(SubSeq(s, 1, Len(s) - 1))
         ELSE s

IsKeyChar(c) == c \in KeyChars

sanitizeKey(key, trim) ==
    LET spaced == [i \in 1..Len(key) |->
                      IF key[i] \in SpaceChars THEN "_" ELSE key[i]]
        kept == SelectSeq(spaced, IsKeyChar)
    IN  IF trim THEN TrimUnderscores(kept) ELSE kept

sanitizeValue(value) == value

\* Snowflake.sha256(key, true).toString("hex"): an injective image of the key
\* that is never the name of a property of Object.prototype
sha256(key) == << "#" >> \o key

-----------------------------------------------------------------------------
(* SnowflakeAol: the text format of the backup files *)

Quote == "\""
Backslash == "\\"

\* JSON.stringify of the characters of a string
RECURSIVE JsonEscape(_)
JsonEscape(s) ==
    IF s = << >> THEN << >>
    ELSE LET c == Head(s)
             e == IF c = Quote THEN << Backslash, Quote >>
                  ELSE IF c = Backslash THEN << Backslash, Backslash >>
                  ELSE IF c = "\n" THEN << Backslash, "n" >>
                  ELSE IF c = "\t" THEN << Backslash, "t" >>
                  ELSE << c >>
         IN  e \o JsonEscape(Tail(s))

\* is s the inside of a JSON string literal (of the escapes, the alphabet of the
\* model can write only \" \\ \n \t)
RECURSIVE JsonStringBody(_)
JsonStringBody(s) ==
    IF s = << >> THEN TRUE
    ELSE IF Head(s) = Backslash
         THEN /\ Len(s) >= 2
              /\ s[2] \in { Quote, Backslash, "n", "t" }
              /\ JsonStringBody(Tail(Tail(s)))
    ELSE IF Head(s) \in { Quote, "\n", "\t" } THEN FALSE
    ELSE JsonStringBody(Tail(s))

RECURSIVE JsonUnescape(_)
JsonUnescape(s) ==
    IF s = << >> THEN << >>
    ELSE IF Head(s) = Backslash
         THEN LET c == s[2]
                  d == IF c = "n" THEN "\n" ELSE IF c = "t" THEN "\t" ELSE c
              IN  << d >> \o JsonUnescape(Tail(Tail(s)))
    ELSE << Head(s) >> \o JsonUnescape(Tail(s))

IsJsonString(s) ==
    /\ Len(s) >= 2
    /\ s[1] = Quote
    /\ s[Len(s)] = Quote
    /\ JsonStringBody(SubSeq(s, 2, Len(s) - 1))

IsJsonNumber(s) == s # << >> /\ IsDigits(s) /\ StripZeros(s) = s

stringify(input) ==
    IF input.t = "string" THEN << Quote >> \o JsonEscape(input.v) \o << Quote >>
    ELSE IF input = Null THEN << "N" >>
    ELSE IF input = True THEN << "T" >>
    ELSE IF input = False THEN << "F" >>
    ELSE input.v

parse(input) ==
    IF input \in { << "N" >>, << "n" >> } THEN Null
    ELSE IF input \in { << "T" >>, << "t" >> } THEN True
    ELSE IF input \in { << "F" >>, << "f" >> } THEN False
    ELSE LET json == Trim(input)
         IN  IF IsJsonString(json) THEN Str(JsonUnescape(SubSeq(json, 2, Len(json) - 1)))
             ELSE IF IsJsonNumber(json) THEN Num(json)
             ELSE IF json = << "n", "u", "l", "l" >> THEN Null
             ELSE IF json = << "t", "r", "u", "e" >> THEN True
             ELSE IF json = << "f", "a", "l", "s", "e" >> THEN False
             \* JSON.parse threw
             ELSE IF IsDigits(json) THEN Num(StripZeros(IF json = << >> THEN << "0" >> ELSE json))
             ELSE Str(input)

\* A JavaScript object used as a dictionary where the order of its properties
\* matters: a sequence of << key, value >> pairs in insertion order.
DictKeys(dict) == { dict[i][1] : i \in 1..Len(dict) }

\* dict[key] = value
DictPut(dict, key, value) ==
    IF key \in DictKeys(dict)
    THEN [i \in 1..Len(dict) |-> IF dict[i][1] = key THEN << key, value >> ELSE dict[i]]
    ELSE Append(dict, << key, value >>)

\* dict[key], for a key that is there
DictGet(dict, key) == dict[CHOOSE i \in 1..Len(dict) : dict[i][1] = key][2]

IsArrayIndex(key) == IsJsonNumber(key)
IsNamedEntry(entry) == ~IsArrayIndex(entry[1])
IsIndexEntry(entry) == IsArrayIndex(entry[1])
IndexBefore(e1, e2) == NumVal(e1[1]) < NumVal(e2[1])

\* Object.entries(dict): integer-like keys in ascending order, then the other
\* keys in insertion order
ObjectEntries(dict) ==
    SortSeq(SelectSeq(dict, IsIndexEntry), IndexBefore) \o SelectSeq(dict, IsNamedEntry)

\* valueToKeysMap of encodeSets: a Map from the stringified value to its keys,
\* in the order the values were first met
RECURSIVE GroupByValue(_, _)
GroupByValue(entries, groups) ==
    IF entries = << >> THEN groups
    ELSE LET key == entries[1][1]
             stringValue == stringify(entries[1][2])
             at == { i \in 1..Len(groups) : groups[i].value = stringValue }
         IN  GroupByValue(Tail(entries),
                IF at = {}
                THEN Append(groups, [value |-> stringValue, keys |-> << key >>])
                ELSE [i \in 1..Len(groups) |->
                        IF i \in at
                        THEN [groups[i] EXCEPT !.keys = Append(@, key)]
                        ELSE groups[i]])

encodeSets(data) ==
    LET groups == GroupByValue(ObjectEntries(data), << >>)
    IN  Join([i \in 1..Len(groups) |->
                Join(groups[i].keys, << "<" >>) \o << "<" >> \o groups[i].value],
             << "\n" >>)

IsNotEmpty(s) == s # << >>

RECURSIVE DropFirstChars(_)
DropFirstChars(ss) ==
    IF ss = << >> THEN << >> ELSE << Tail(Head(ss)) >> \o DropFirstChars(Tail(ss))

RECURSIVE PutAll(_, _, _)
PutAll(dict, keys, value) ==
    IF keys = << >> THEN dict
    ELSE PutAll(DictPut(dict, Head(keys), value), Tail(keys), value)

\* the instruction(s) one non-empty trimmed line stands for
parseLine(line) ==
    IF Head(line) = ";" THEN << >>
    ELSE IF Head(line) = "#"
         THEN << "remove", DropFirstChars(SelectSeq(Split(line, " "), IsNotEmpty)) >>
    ELSE LET parts == Split(line, "<")
             value == parse(parts[Len(parts)])
         IN  << "set", PutAll(<< >>, SubSeq(parts, 1, Len(parts) - 1), value) >>

RECURSIVE parseLines(_)
parseLines(lines) ==
    IF lines = << >> THEN << >>
    ELSE parseLine(Head(lines)) \o parseLines(Tail(lines))

\* a flat array: action, data, action, data, ...
parseInstructions(input) ==
    LET split == Split(input, "\n")
        trimmed == [i \in 1..Len(split) |-> Trim(split[i])]
    IN  parseLines(SelectSeq(trimmed, IsNotEmpty))

-----------------------------------------------------------------------------
(* SnowflakeCore: the lookup tables and the core API, as functions of the    *)
(* core's state c = [key, value, trash, cache, current_meid]                 *)

\* meids.count of the configuration
meids_size == 2

EmptyCore ==
    [ key |-> [p \in {} |-> Undefined],
      value |-> [p \in {} |-> Undefined],
      trash |-> << >>,
      cache |-> {},
      current_meid |-> -1 ]

\* #sha256(key, use_cache = true): memoizes the hash of the key
hashCached(c, key) == [c EXCEPT !.cache = @ \cup {key}]

nextMeid(c) ==
    IF meids_size <= 1 THEN [core |-> c, ret |-> 0]
    ELSE LET inc == c.current_meid + 1
             cur == IF inc >= meids_size THEN -1 ELSE inc
         IN  [core |-> [c EXCEPT !.current_meid = cur],
              ret |-> IF cur > 0 THEN cur ELSE 0]

setLookupKey(c, key, meid_index, size, position, key_hash) ==
    [c EXCEPT !.key = JsPut(@, key,
        [ meid |-> meid_index, name |-> key, hash |-> key_hash,
          size |-> size, position |-> position, length |-> 36 + size ])]

setLookupValue(c, hash, value) == [c EXCEPT !.value = JsPut(@, hash, value)]

\* this.#lookup.key[key] || {}
lookupKey(c, key) ==
    LET entry == JsGet(c.key, key)
    IN  IF entry = Undefined THEN EmptyObject ELSE entry

\* this.#lookup.value[hash] || undefined
lookupValue(c, hash) ==
    LET value == JsGet(c.value, hash)
    IN  IF Falsy(value) THEN Undefined ELSE value

\* this.lookupKey(key).length > 0
exist(c, key) ==
    LET entry == lookupKey(c, key)
    IN  "length" \in DOMAIN entry /\ entry.length > 0

setUnsafe(c, key, value) ==
    IF Len(key) = 0 THEN [core |-> c, ret |-> 0]
    ELSE LET hashed == hashCached(c, key)
             hash == sha256(key)
         IN  IF exist(hashed, key)
             THEN [core |-> setLookupValue(hashed, hash, value), ret |-> 1]
             ELSE LET size == toBufferLength(value)
                      index == nextMeid(hashed)
                  IN  [core |-> setLookupValue(
                                   setLookupKey(index.core, key, index.ret, size, -1, hash),
                                   hash, value),
                       ret |-> 2]

\* set(key, value): posted is what confirm() posts to the AOL worker
set(c, key, value) ==
    LET k == sanitizeKey(key, FALSE)
    IN  IF Len(k) > 0
        THEN LET done == setUnsafe(c, k, value)
             IN  [core |-> done.core,
                  posted |-> << [action |-> "set", key |-> k, value |-> value] >>,
                  ret |-> done.ret]
        ELSE [core |-> c, posted |-> << >>, ret |-> 0]

get(c, key, def) ==
    LET hashed == hashCached(c, key)
        value == lookupValue(hashed, sha256(key))
    IN  [core |-> hashed, ret |-> IF value = Undefined THEN def ELSE value]

\* { size: lookup.size, position: lookup.position, length: lookup.length }, a
\* property that reads undefined left out
trashSlot(lookup) ==
    [f \in {"size", "position", "length"} \cap DOMAIN lookup |-> lookup[f]]

remove(c, key) ==
    IF ~exist(c, key) THEN [core |-> c, posted |-> << >>, ret |-> FALSE]
    ELSE LET hashed == hashCached(c, key)
             lookup == JsGet(c.key, key)
         IN  [core |-> [hashed EXCEPT
                          !.trash = Append(@, trashSlot(lookup)),
                          !.key = JsPut(@, key, Undefined),
                          !.value = JsPut(@, sha256(key), Undefined)],
              posted |-> << >>,
              ret |-> TRUE]

-----------------------------------------------------------------------------
(* SnowflakeCoreHelper.loadDatabase: recovery from the backup files *)

RECURSIVE setUnsafeAll(_, _)
setUnsafeAll(c, entries) ==
    IF entries = << >> THEN c
    ELSE setUnsafeAll(
            setUnsafe(c, sanitizeKey(entries[1][1], FALSE), sanitizeValue(entries[1][2])).core,
            Tail(entries))

RECURSIVE removeAll(_, _)
removeAll(c, keys) ==
    IF keys = << >> THEN c ELSE removeAll(remove(c, Head(keys)).core, Tail(keys))

\* the loop of restore_backup over the flat array of instructions
RECURSIVE applyInstructions(_, _)
applyInstructions(c, instructions) ==
    IF Len(instructions) < 2 THEN c
    ELSE LET action == instructions[1]
             data == instructions[2]
             next == IF action = "set" THEN setUnsafeAll(c, ObjectEntries(data))
                     ELSE IF action = "remove" THEN removeAll(c, data)
                     ELSE c
         IN  applyInstructions(next, SubSeq(instructions, 3, Len(instructions)))

restore_backup(c, content) == applyInstructions(c, parseInstructions(content))

\* for(let file of files) restore_backup(file), in the order of the listing
RECURSIVE restoreAll(_, _)
restoreAll(c, contents) ==
    IF contents = << >> THEN c
    ELSE restoreAll(restore_backup(c, Head(contents)), Tail(contents))

\* a[field_name] ?? 0, for the field size
slotSize(slot) == IF "size" \in DOMAIN slot THEN slot.size ELSE 0

RECURSIVE insertBySize(_, _)
insertBySize(sorted, slot) ==
    IF sorted = << >> THEN << slot >>
    ELSE IF slotSize(sorted[Len(sorted)]) <= slotSize(slot) THEN Append(sorted, slot)
    ELSE Append(insertBySize(SubSeq(sorted, 1, Len(sorted) - 1), slot), sorted[Len(sorted)])

\* SnowflakeRangeQuery.sortBy("size") on the trash array itself: a stable sort
RECURSIVE sortBySize(_)
sortBySize(array) ==
    IF array = << >> THEN << >>
    ELSE insertBySize(sortBySize(SubSeq(array, 1, Len(array) - 1)), array[Len(array)])

loadDatabase(contents) ==
    LET restored == restoreAll(EmptyCore, contents)
    IN  [restored EXCEPT !.trash = sortBySize(@)]

-----------------------------------------------------------------------------
(* SnowflakeAol in the worker thread *)

\* variants of add, against which the claims about the queue are tested:
\* a queue that keeps the first value given to a key
add_keepsFirst(q, key, value) ==
    IF key \in DictKeys(q) THEN q ELSE DictPut(q, key, value)

\* a queue that takes nothing
add_ignores(q, key, value) == q

\* add(key, value): this.#queue[key] = value
add(q, key, value) == DictPut(q, key, value)

-----------------------------------------------------------------------------
(* SnowflakeCLI and SnowflakeShell: access tokens, sessions and lockdown *)

\* app.json access_keys: a token for one session at a time and a token whose
\* max_connections is 0
TokenOne == << "t" >>
TokenZero == << "z" >>
AccessKeys ==
    (TokenOne :> [alias |-> "admin", max_connections |-> 1])
        @@ (TokenZero :> [alias |-> "nobody", max_connections |-> 0])

\* authenticate(access_token): (appConfig.access_keys ?? {})[access_token] ?? false
authenticate(access_token) ==
    LET found == JsGet(AccessKeys, access_token)
    IN  IF found = Undefined THEN False ELSE found

\* auth.max_connections || -1
maxConnections(auth) ==
    IF "max_connections" \in DOMAIN auth /\ auth.max_connections # 0
    THEN auth.max_connections
    ELSE -1

\* this.#lockdown[s] ?? {} of a subject that has no entry: time and attempts undefined
NoEntry == [time |-> 0, attempts |-> 0]

\* a variant of lockedDown that wants more than max_login_attempt attempts
lockedDown_oneMore(configs, table, clock, subject) ==
    /\ configs.max_login_attempt > 0
    /\ configs.lockdown \in { "ip", "token" }
    /\ table[subject].time # 0 /\ table[subject].attempts # 0
    /\ clock <= table[subject].time
    /\ table[subject].attempts > configs.max_login_attempt

\* lockedDown(subject), for a subject that is not null; clock is Snowflake.now(false)
lockedDown(configs, table, clock, subject) ==
    IF configs.max_login_attempt <= 0 THEN FALSE
    ELSE IF configs.lockdown \notin { "ip", "token" } THEN FALSE
    ELSE LET time == table[subject].time
             attempts == table[subject].attempts
         IN  /\ time # 0 /\ attempts # 0
             /\ clock <= time
             /\ attempts >= configs.max_login_attempt

\* lockedDown(null): some entry of the table is locked down
anyLockedDown(configs, table, clock) ==
    \E s \in DOMAIN table : lockedDown(configs, table, clock, s)

\* no .lockdown file
NoFile == << >>

\* #updateLockdown: the file after it, when the write or the removal succeeds
updateLockdown(configs, table, clock, file) ==
    IF ~anyLockedDown(configs, table, clock) THEN NoFile ELSE << table >>

\* the subject a failed attempt is booked on
subjectOf(configs, ip, token) == IF configs.lockdown = "ip" THEN ip ELSE token

\* a variant of the handler that starts the count again at every failure
onLoginAttempt_restarts(configs, table, clock, ip, success, token) ==
    IF configs.max_login_attempt > 0 /\ ~success
    THEN [table EXCEPT ![subjectOf(configs, ip, token)] =
             [time |-> clock + configs.cooldown * 1000, attempts |-> 1]]
    ELSE table

\* the handler of cli_server_login_attempt, as far as the lockdown table goes
onLoginAttempt(configs, table, clock, ip, success, token) ==
    IF configs.max_login_attempt > 0 /\ ~success
    THEN [table EXCEPT ![subjectOf(configs, ip, token)] =
             [time |-> clock + configs.cooldown * 1000,
              attempts |-> @.attempts + 1]]
    ELSE table

\* tokenSessions(token)
tokenSessions(counters, token) == counters[token]

\* the handler of cli_server_shell_authorized
onShellAuthorized(counters, token) == [counters EXCEPT ![token] = @ + 1]

\* the handler of cli_server_connection_end, as far as the counters go;
\* token is shell.token, null before the first authorization
NoToken == << >>

onConnectionEnd(counters, token) ==
    IF token # NoToken
    THEN [counters EXCEPT ![token] = IF @ - 1 > 0 THEN @ - 1 ELSE 0]
    ELSE counters

-----------------------------------------------------------------------------
(* SnowflakeCLI: the command line parser and the dispatcher *)

\* a number that is kept as an integer: a status code, a count, an exit code
Whole(n) == [t |-> "number", n |-> n]

\* Snowflake.DUMMY.UNDEF
UNDEF == [t |-> "symbol"]

IsSpace(ch) == ch \in SpaceChars

\* the index of the last character of the run of \S that starts at i
RECURSIVE RunEnd(_, _)
RunEnd(s, i) == IF i < Len(s) /\ ~IsSpace(s[i + 1]) THEN RunEnd(s, i + 1) ELSE i

\* the first index from i on where s holds ch, 0 when there is none
RECURSIVE IndexFrom(_, _, _)
IndexFrom(s, ch, i) ==
    IF i > Len(s) THEN 0 ELSE IF s[i] = ch THEN i ELSE IndexFrom(s, ch, i + 1)

\* the last index in lo..hi where s holds "=", 0 when there is none
LastEquals(s, lo, hi) ==
    LET at == { k \in lo..hi : s[k] = "=" }
    IN  IF at = {} THEN 0 ELSE CHOOSE k \in at : \A j \in at : j <= k

\* what /"([^"]*)"|'([^']*)'|--(\S+)=(\S+)|--(\S+)|-(\S)|(\S+)/ matches at
\* index i of s, the alternatives tried in this order
matchAt(s, i) ==
    LET ch == s[i]
        close == IF ch \in { Quote, "'" } THEN IndexFrom(s, ch, i + 1) ELSE 0
        dashes == /\ ch = "-" /\ i + 2 <= Len(s)
                  /\ s[i + 1] = "-" /\ ~IsSpace(s[i + 2])
        named == IF dashes THEN RunEnd(s, i + 2) ELSE 0
        eq == IF dashes THEN LastEquals(s, i + 3, named - 1) ELSE 0
        none == [kind |-> "none", end |-> i, name |-> << >>, value |-> << >>,
                 text |-> << >>]
    IN  IF IsSpace(ch) THEN none
        ELSE IF close > 0
        THEN [none EXCEPT !.kind = "quoted", !.end = close,
                          !.text = SubSeq(s, i + 1, close - 1)]
        ELSE IF dashes /\ eq > 0
        THEN [none EXCEPT !.kind = "valued", !.end = named,
                          !.name = SubSeq(s, i + 2, eq - 1),
                          !.value = SubSeq(s, eq + 1, named)]
        ELSE IF dashes
        THEN [none EXCEPT !.kind = "named", !.end = named,
                          !.name = SubSeq(s, i + 2, named)]
        ELSE IF ch = "-" /\ i + 1 <= Len(s) /\ ~IsSpace(s[i + 1])
        THEN [none EXCEPT !.kind = "flag", !.end = i + 1, !.name = << s[i + 1] >>]
        ELSE [none EXCEPT !.kind = "plain", !.end = RunEnd(s, i),
                          !.text = SubSeq(s, i, RunEnd(s, i))]

\* [...input.matchAll(regex)] from index i on; whole is match[0]
RECURSIVE matchAll(_, _)
matchAll(s, i) ==
    IF i > Len(s) THEN << >>
    ELSE LET m == matchAt(s, i)
         IN  IF m.kind = "none" THEN matchAll(s, i + 1)
             ELSE << [m |-> m, whole |-> SubSeq(s, i, m.end)] >>
                      \o matchAll(s, m.end + 1)

\* the forEach of parseCommand over the matches after the first one
RECURSIVE parseMatches(_, _)
parseMatches(matches, result) ==
    IF matches = << >> THEN result
    ELSE LET m == Head(matches).m
             next ==
               IF m.kind = "valued"
               THEN [result EXCEPT !.options = JsPut(@, m.name, Str(m.value))]
               ELSE IF m.kind \in { "named", "flag" }
               THEN [result EXCEPT !.options = JsPut(@, m.name, True)]
               ELSE IF m.text # << >>
               THEN [result EXCEPT !.args = Append(@, m.text)]
               ELSE result
         IN  parseMatches(Tail(matches), next)

NoOptions == [p \in {} |-> True]

parseCommand(input) ==
    LET matches == matchAll(input, 1)
        result == [command |-> << >>, args |-> << >>, options |-> NoOptions]
    IN  IF matches = << >> THEN result
        ELSE parseMatches(Tail(matches), [result EXCEPT !.command = matches[1].whole])

\* options.hasOwnProperty(short) || options.hasOwnProperty(long)
hasOption(options, short, long) == short \in DOMAIN options \/ long \in DOMAIN options

\* the commands registered by #initCommands and by SnowflakeCoreHelper.init:
\* the own properties of #commands
Commands ==
    { << "h", "e", "l", "p" >>, << "c", "l", "e", "a", "r" >>, << "e", "x", "i", "t" >>, << "i", "n", "f", "o" >>, << "g", "e", "t" >>, << "s", "e", "t" >>, << "d", "e", "l", "e", "t", "e" >>,
      << "s", "a", "n", "i", "t", "i", "z", "e" >> }

\* #aliases after SnowflakeCLI.alias("remove", "delete")
Aliases == (<< "r", "e", "m", "o", "v", "e" >> :> << "d", "e", "l", "e", "t", "e" >>)

\* typeof this.#commands[command]
typeofCommand(command) ==
    IF command \in Commands THEN "object"
    ELSE LET inherited == ObjectPrototype(command)
         IN  IF inherited = Undefined THEN "undefined" ELSE inherited.t

\* the result an executor returns: [message, value, status, output], elements
\* it does not return being undefined
Response(message, value, status, output) ==
    [message |-> message, value |-> value, status |-> status, output |-> output]

\* what running a command leaves behind: the core, the messages posted to the
\* AOL worker, the returned array (or that it threw), the exit code passed to
\* shell.exit (-1: exit was not called)
Done(core, posted, response) ==
    [core |-> core, posted |-> posted, response |-> response, throws |-> FALSE,
     exit |-> -1]

\* validate of every command that has one
validate(command, args) ==
    IF command \in { << "g", "e", "t" >>, << "s", "e", "t" >>, << "d", "e", "l", "e", "t", "e" >> } THEN Len(args) > 0
    ELSE IF command = << "s", "a", "n", "i", "t", "i", "z", "e" >> THEN Len(args) > 1
    ELSE TRUE

\* exec of get
RECURSIVE getEach(_, _, _)
getEach(core, args, values) ==
    IF args = << >> THEN [core |-> core, values |-> values]
    ELSE LET key == sanitizeKey(Head(args), FALSE)
             got == get(core, key, UNDEF)
         IN  getEach(got.core, Tail(args),
                     IF got.ret # UNDEF THEN DictPut(values, key, got.ret) ELSE values)

getExec(core, args, options) ==
    LET useJson == hasOption(options, << "j" >>, << "j", "s", "o", "n" >>)
    IN  IF Len(args) <= 1
        THEN LET got == get(core, sanitizeKey(args[1], FALSE), UNDEF)
             IN  IF got.ret = UNDEF
                 THEN Done(got.core, << >>,
                           Response("key doesn't exist", Null, Whole(6), Undefined))
                 ELSE Done(got.core, << >>,
                           Response("",
                                    IF useJson
                                    THEN [t |-> "object",
                                          entries |-> << << << "k", "e", "y" >>, got.ret >> >>]
                                    ELSE got.ret,
                                    Whole(0), True))
        ELSE LET each == getEach(core, args, << >>)
                 found == ObjectEntries(each.values)
             IN  IF Len(found) = 0
                 THEN Done(each.core, << >>,
                           Response("keys don't exist", Null, Whole(6), Undefined))
                 ELSE Done(each.core, << >>,
                           Response("found", [t |-> "object", entries |-> found],
                                    Whole(0), True))

\* JSON.parse of an argument of set -j, for the texts the model sends: an
\* object whose members are strings and numbers, a number, or no JSON at all
jsonMember(text) ==
    LET colon == IndexFrom(text, ":", 1)
        name == Trim(SubSeq(text, 1, colon - 1))
        value == Trim(SubSeq(text, colon + 1, Len(text)))
    IN  IF colon = 0 \/ ~IsJsonString(name) THEN [ok |-> FALSE]
        ELSE IF IsJsonString(value)
        THEN [ok |-> TRUE, key |-> JsonUnescape(SubSeq(name, 2, Len(name) - 1)),
              value |-> Str(JsonUnescape(SubSeq(value, 2, Len(value) - 1)))]
        ELSE IF IsJsonNumber(value)
        THEN [ok |-> TRUE, key |-> JsonUnescape(SubSeq(name, 2, Len(name) - 1)),
              value |-> Num(value)]
        ELSE [ok |-> FALSE]

RECURSIVE jsonMembers(_, _)
jsonMembers(texts, dict) ==
    IF texts = << >> THEN [ok |-> TRUE, entries |-> ObjectEntries(dict)]
    ELSE LET member == jsonMember(Head(texts))
         IN  IF ~member.ok THEN [ok |-> FALSE, entries |-> << >>]
             ELSE jsonMembers(Tail(texts), DictPut(dict, member.key, member.value))

\* Object.entries(JSON.parse(item)); ok is false when either throws
jsonEntries(item) ==
    LET json == Trim(item)
        inner == Trim(SubSeq(json, 2, Len(json) - 1))
    IN  IF Len(json) >= 2 /\ json[1] = "{" /\ json[Len(json)] = "}"
        THEN IF inner = << >> THEN [ok |-> TRUE, entries |-> << >>]
             ELSE jsonMembers(Split(inner, ","), << >>)
        ELSE IF IsJsonNumber(json) THEN [ok |-> TRUE, entries |-> << >>]
        ELSE [ok |-> FALSE, entries |-> << >>]

\* setItem for each entry: the core, what was posted, the counters
RECURSIVE setItems(_, _)
setItems(acc, entries) ==
    IF entries = << >> THEN acc
    ELSE LET done == set(acc.core, Head(entries)[1], Head(entries)[2])
         IN  setItems([core |-> done.core,
                       posted |-> acc.posted \o done.posted,
                       updates |-> acc.updates + (IF done.ret = 1 THEN 1 ELSE 0),
                       news |-> acc.news + (IF done.ret = 2 THEN 1 ELSE 0)],
                      Tail(entries))

\* the JSON mode of set: every argument is parsed, an argument that does not
\* parse is skipped
RECURSIVE setJson(_, _)
setJson(acc, args) ==
    IF args = << >> THEN acc
    ELSE LET parsed == jsonEntries(Head(args))
         IN  setJson(IF parsed.ok THEN setItems(acc, parsed.entries) ELSE acc,
                     Tail(args))

\* the pair mode of set: args[i], args[i + 1] for i = 0, 2, 4, ...
RECURSIVE pairs(_)
pairs(args) ==
    IF Len(args) < 2 THEN << >>
    ELSE << << args[1], Str(args[2]) >> >> \o pairs(SubSeq(args, 3, Len(args)))

\* exec of set
setExec(core, args, options) ==
    IF Len(args) <= 1
    THEN Done(core, << >>, Response("value missing", Whole(0), True, Undefined))
    ELSE LET isJson == hasOption(options, << "j" >>, << "j", "s", "o", "n" >>)
             start == [core |-> core, posted |-> << >>, updates |-> 0, news |-> 0]
             acc == IF isJson THEN setJson(start, args) ELSE setItems(start, pairs(args))
         IN  Done(acc.core, acc.posted,
                  Response("set", Whole(acc.updates + acc.news), Whole(0), Undefined))

\* exec of delete
RECURSIVE removeEach(_, _)
removeEach(acc, args) ==
    IF args = << >> THEN acc
    ELSE LET done == remove(acc.core, Head(args))
         IN  removeEach([core |-> done.core,
                         posted |-> acc.posted \o done.posted,
                         removed |-> acc.removed + (IF done.ret THEN 1 ELSE 0)],
                        Tail(args))

deleteExec(core, args) ==
    IF Len(args) <= 1
    THEN LET done == remove(core, args[1])
         IN  Done(done.core, done.posted,
                  IF done.ret
                  THEN Response("1 item deleted", True, Whole(0), Undefined)
                  ELSE Response("Deletion failed", False, Whole(5), Undefined))
    ELSE LET acc == removeEach([core |-> core, posted |-> << >>, removed |-> 0], args)
         IN  Done(acc.core, acc.posted,
                  Response("deleted", Whole(acc.removed), Whole(0), Undefined))

\* String.prototype.toLowerCase, as far as the letters of "KEY" and "VALUE" go
toLowerCase(s) ==
    LET upper == << "K", "E", "Y", "V", "A", "L", "U" >>
        lower == << "k", "e", "y", "v", "a", "l", "u" >>
    IN  [i \in 1..Len(s) |->
            IF \E j \in 1..Len(upper) : upper[j] = s[i]
            THEN lower[CHOOSE j \in 1..Len(upper) : upper[j] = s[i]]
            ELSE s[i]]

\* exec of sanitize
sanitizeExec(core, args, options) ==
    LET type == toLowerCase(Head(args))
        input == Join(Tail(args), << " " >>)
        value == IF type = << "k", "e", "y" >>
                 THEN sanitizeKey(input, hasOption(options, << "t" >>, << "t", "r", "i", "m" >>))
                 ELSE IF type = << "v", "a", "l", "u", "e" >> THEN sanitizeValue(input)
                 ELSE << >>
    IN  Done(core, << >>, Response("", Str(value), Whole(0), True))

\* Math.max(parseInt(args[0] ?? 0) || 0, 0), for an argument of digits
exitCode(args) ==
    IF args # << >> /\ args[1] # << >> /\ IsDigits(args[1]) THEN NumVal(args[1]) ELSE 0

\* exec of exit; has_shell: exec was given a SnowflakeShell (with null,
\* the default, shell.constructor throws)
exitExec(core, args, has_shell) ==
    IF has_shell
    THEN [Done(core, << >>, Response("", Null, Whole(4), Undefined))
             EXCEPT !.exit = exitCode(args)]
    ELSE [Done(core, << >>, Response("", Null, Whole(0), Null)) EXCEPT !.throws = TRUE]

\* exec of the command registered under a name
execCommand(core, command, args, options, has_shell) ==
    IF command = << "g", "e", "t" >> THEN getExec(core, args, options)
    ELSE IF command = << "s", "e", "t" >> THEN setExec(core, args, options)
    ELSE IF command = << "d", "e", "l", "e", "t", "e" >> THEN deleteExec(core, args)
    ELSE IF command = << "s", "a", "n", "i", "t", "i", "z", "e" >> THEN sanitizeExec(core, args, options)
    ELSE IF command = << "e", "x", "i", "t" >> THEN exitExec(core, args, has_shell)
    ELSE IF command \in { << "h", "e", "l", "p" >>, << "i", "n", "f", "o" >> }
    THEN Done(core, << >>, Response("text", Str(<< >>), Whole(0), Undefined))
    \* clear has no exec: () => ["", null, 0, null]
    ELSE Done(core, << >>, Response("", Null, Whole(0), Null))

\* the inner try/catch of SnowflakeCLI.exec around the executor
caught(core, done) ==
    IF done.throws
    THEN Done(core, << >>, Response("error", Null, Whole(5), Null))
    ELSE done

\* SnowflakeCLI.exec after parseCommand
execParsed(core, command, args, options, has_shell) ==
    IF command = << >> \/ typeofCommand(command) # "object"
    THEN Done(core, << >>, Response("Command not found", Null, Whole(3), Null))
    ELSE IF command \notin Commands
    \* an object that is no registered command: validate and exec are undefined
    THEN Done(core, << >>, Response("", Null, Whole(0), Null))
    ELSE IF ~validate(command, args)
    THEN Done(core, << >>, Response("command is not valid", Null, Whole(4), Null))
    ELSE caught(core, execCommand(core, command, args, options, has_shell))

\* const { command, args, options } = command_data
execData(core, command_data, has_shell) ==
    execParsed(core, command_data.command, command_data.args,
               command_data.options, has_shell)

\* SnowflakeCLI.exec(input, shell): ret is the array it returns
exec(core, input, has_shell) == execData(core, parseCommand(input), has_shell)

-----------------------------------------------------------------------------
(* Inputs of the model *)

RawKeys == { << "a" >>, constructor, << "!" >> }
Keys == { sanitizeKey(k, FALSE) : k \in RawKeys } \ { << >> }

Num0 == Num(<< "0" >>)
Num1 == Num(<< "1" >>)
StrEmpty == Str(<< >>)
StrLt == Str(<< "<" >>)
\* two values that are falsy in JavaScript and two that are not, one of them
\* holding the separator of the set lines
Values == { Num0, StrEmpty, Num1, StrLt }

Default == Str(<< "d" >>)
Defaults == { Default }

\* meids.size, memory.max_size and persistent.backup_size_limit in bytes;
\* 0: no limit (the shipped configuration has no limit the model comes near)
Unlimited == [size |-> 0, max_memory |-> 0, backup_size_limit |-> 0]
CappedConfigs == { [size |-> 1, max_memory |-> 0, backup_size_limit |-> 0],
                   [size |-> 0, max_memory |-> 2, backup_size_limit |-> 0] }
\* a backup file may hold one short line, not two
RotatingConfigs == { [size |-> 0, max_memory |-> 0, backup_size_limit |-> 4] }

-----------------------------------------------------------------------------
(* The state machine *)

Core == [ key |-> lookup_key, value |-> lookup_value, trash |-> trash,
          cache |-> cache, current_meid |-> current_meid ]

SetCore(c) ==
    /\ lookup_key' = c.key
    /\ lookup_value' = c.value
    /\ trash' = c.trash
    /\ cache' = c.cache
    /\ current_meid' = c.current_meid

NeverSet == [t |-> "never", v |-> << >>]
NoAck == [set |-> NeverSet, removed |-> FALSE, at |-> 0]
NoFlush == [log |-> << >>, text |-> << >>]
NoCall == [op |-> "none"]

\* the backup file the worker of this run appends to
CurrentFile == files[Len(files)]

\* connections the CLI server holds at once, and tokens they send in one run
MaxShells == 2
MaxCommands == 3

\* Math.max(getInt("server.cli_cooldown"), 5)
MinCooldown == 5

\* configs.yaml as shipped: cli_lockdown, max_cli_login_attempt, cli_cooldown,
\* cli_authentication_timeout (milliseconds), cli_input_size (0: no limit)
ShippedCli ==
    [lockdown |-> "ip", max_login_attempt |-> 2, cooldown |-> 60,
     authentication_timeout |-> 5000, input_size |-> 0]

\* the configurations the CLI server is run with: either mode, a mode that is
\* neither, and lockdown switched off
CliConfigs ==
    { [ShippedCli EXCEPT !.cooldown = MinCooldown],
      [ShippedCli EXCEPT !.cooldown = MinCooldown, !.lockdown = "token"],
      [ShippedCli EXCEPT !.cooldown = MinCooldown, !.lockdown = "none"],
      [ShippedCli EXCEPT !.cooldown = MinCooldown, !.max_login_attempt = 0] }

\* the values of cli_authentication_timeout the sessions are run with: none,
\* half a second, the shipped one
SessionConfigs ==
    { [ShippedCli EXCEPT !.cooldown = MinCooldown, !.authentication_timeout = t] :
        t \in { 0, 500, 5000 } }

\* the values of cli_input_size the commands are run with: no limit, 7 bytes
DispatchConfigs ==
    { [ShippedCli EXCEPT !.cooldown = MinCooldown, !.input_size = n] :
        n \in { 0, 7 } }

\* remote addresses and the tokens a client sends: the two of app.json, one
\* that is no key of it, and a property every object has
Addresses == { << "1" >>, << "2" >> }
TokenInputs == { TokenOne, TokenZero, << "x" >>, constructor }

\* what a client sends before it is authorized: a token, something that is
\* no token, a mode attribute, something else that begins with @
SessionLines == { TokenOne, << "x" >>, << "@", "j", "s", "o", "n" >>, << "@", "x" >> }

\* one chunk of data that holds two command lines
TwoLines == << "s", "e", "t", " ", "a", " ", "1" >> \o << "\n" >> \o << "s", "e", "t", " ", "b", " ", "1" >>

\* what a client sends to authorize, to switch to JSON mode, and then as
\* commands
CommandLines ==
    { TokenOne, << "@", "j", "s", "o", "n" >>,
      << "s", "e", "t", " ", "a", " ", "1" >>, << "s", "e", "t", " ", "a", " ", "1", " ", "b", " ", "0" >>,
      << "s", "e", "t", " ", "-", "j", " ", "'", "{", Quote, "a", Quote, ":", "1", "}", "'" >>, << "s", "e", "t", " ", "-", "j", " ", "'", "{", Quote, "a", Quote, ":", "1", "}", "'", " ", "'", "{", Quote, "b", Quote, ":", "1", "}", "'" >>,
      << "g", "e", "t" >>, << "d", "e", "l", "e", "t", "e", " ", "a" >>, << "r", "e", "m", "o", "v", "e", " ", "a" >>, << "_", "_", "p", "r", "o", "t", "o", "_", "_" >>, << "n", "o", "p", "e" >>, << "e", "x", "i", "t", " ", "1" >>,
      TwoLines }

Lines == TokenInputs \cup SessionLines \cup CommandLines
Subjects == Addresses \cup Lines

\* the instants of Snowflake.now(false), in seconds, at which something happens:
\* the start, a second later, just past the cooldown, just past cooldown * 1000
ClockTicks ==
    { 0, 1, MinCooldown + 1, MinCooldown * 1000 + 1,
      MinCooldown * 1000 + MinCooldown + 2 }

\* a slot of #connections with no socket in it
ClosedShell ==
    [open |-> FALSE, access |-> FALSE, ip |-> << >>, token |-> NoToken,
     lockdown_reported |-> FALSE, mode |-> "echo", timing |-> FALSE, timer |-> 0]

NoFailure == [count |-> 0, at |-> 0]

\* the CLI server after start() with no .lockdown file
InitShellWith(cliConfigs) ==
    /\ cli \in cliConfigs
    /\ now = 0
    /\ lockdown = [s \in Subjects |-> NoEntry]
    /\ sessions = [t \in Lines |-> 0]
    /\ shells = [c \in 1..MaxShells |-> ClosedShell]
    /\ failed = [s \in Subjects |-> NoFailure]
    /\ lockdown_file = NoFile

InitCoreWith(configs, directories) ==
    /\ phase = "stopped"
    /\ lookup_key = EmptyCore.key
    /\ lookup_value = EmptyCore.value
    /\ trash = EmptyCore.trash
    /\ cache = EmptyCore.cache
    /\ current_meid = EmptyCore.current_meid
    /\ limits \in configs
    /\ channel = << >>
    /\ queue = << >>
    /\ instructions_changed = FALSE
    /\ files \in directories
    /\ last = NoCall
    /\ acked = [k \in Keys |-> NoAck]
    /\ accepted = << >>
    /\ flushed = NoFlush
    /\ ticked = FALSE
    /\ snapshot = [clean |-> FALSE, get |-> [k \in Keys |-> Default]]
    /\ ops = 0
    /\ runs = 0

InitWith(configs, directories) ==
    /\ InitCoreWith(configs, directories)
    /\ InitShellWith({ ShippedCli })

\* the shipped configuration and an empty database directory
Init == InitWith({ Unlimited }, { << >> })

\* SnowflakeCore.start: list the backup files, start the AOL worker (which opens
\* a new backup file), replay the listed files
Start ==
    /\ phase = "stopped"
    /\ runs < MaxRuns
    /\ \E order \in Permutations(1..Len(files)) :
          SetCore(loadDatabase([i \in 1..Len(files) |-> files[order[i]]]))
    /\ phase' = "running"
    /\ files' = Append(files, << >>)
    /\ channel' = << >>
    /\ queue' = << >>
    /\ instructions_changed' = FALSE
    /\ last' = [op |-> "start"]
    /\ acked' = [k \in Keys |-> NoAck]
    /\ accepted' = << >>
    /\ flushed' = NoFlush
    /\ ticked' = FALSE
    /\ runs' = runs + 1
    /\ UNCHANGED shellVars
    /\ UNCHANGED << limits, snapshot, ops >>

Set(key, value) ==
    /\ phase = "running"
    /\ ops < MaxOps
    /\ Len(channel) < MaxInFlight
    /\ LET done == set(Core, key, value)
           k == sanitizeKey(key, FALSE)
       IN  /\ SetCore(done.core)
           /\ channel' = channel \o done.posted
           /\ last' = [op |-> "set", key |-> key, ret |-> done.ret]
           /\ acked' = IF done.ret # 0
                       THEN [acked EXCEPT ![k] =
                               [set |-> value, removed |-> FALSE, at |-> Len(CurrentFile)]]
                       ELSE acked
           /\ ticked' = IF done.ret # 0 THEN FALSE ELSE ticked
    /\ ops' = ops + 1
    /\ UNCHANGED shellVars
    /\ UNCHANGED << phase, limits, queue, instructions_changed, files, accepted,
                    flushed, snapshot, runs >>

Remove(key) ==
    /\ phase = "running"
    /\ ops < MaxOps
    /\ LET done == remove(Core, key)
       IN  /\ SetCore(done.core)
           /\ channel' = channel \o done.posted
           /\ last' = [op |-> "remove", key |-> key, ret |-> done.ret]
           /\ acked' = IF done.ret THEN [acked EXCEPT ![key].removed = TRUE] ELSE acked
           /\ ticked' = IF done.ret THEN FALSE ELSE ticked
    /\ ops' = ops + 1
    /\ UNCHANGED shellVars
    /\ UNCHANGED << phase, limits, queue, instructions_changed, files, accepted,
                    flushed, snapshot, runs >>

\* get(key, def) returns get(Core, key, def).ret; what it leaves behind is the
\* memoized hash
Get(key, def) ==
    /\ phase = "running"
    /\ SetCore(get(Core, key, def).core)
    /\ UNCHANGED shellVars
    /\ UNCHANGED << phase, limits, channel, queue, instructions_changed, files,
                    last, acked, accepted, flushed, ticked, snapshot, ops, runs >>

\* exist(key) returns exist(Core, key) and changes nothing
Exist(key) ==
    /\ phase = "running"
    /\ exist(Core, key) \in BOOLEAN
    /\ UNCHANGED vars

\* parentPort.on("message") of worker_aol.js
WorkerMessage ==
    /\ phase = "running"
    /\ channel # << >>
    /\ LET data == Head(channel)
           taken == data.action = "set" /\ data.key # << >>
       IN  /\ queue' = IF taken THEN add(queue, data.key, data.value) ELSE queue
           /\ instructions_changed' = IF taken THEN TRUE ELSE instructions_changed
           /\ accepted' = IF taken THEN Append(accepted, << data.key, data.value >>)
                          ELSE accepted
    /\ channel' = Tail(channel)
    /\ UNCHANGED shellVars
    /\ UNCHANGED << phase, lookup_key, lookup_value, trash, cache, current_meid,
                    limits, files, last, acked, flushed, ticked, snapshot, ops, runs >>

\* the setInterval callback of #jobs; written: did fs.writeSync succeed
Tick(written) ==
    /\ phase = "running"
    /\ IF ~instructions_changed \/ queue = << >>
       THEN /\ written
            /\ UNCHANGED << queue, files, instructions_changed, accepted, flushed >>
       ELSE /\ queue' = << >>
            /\ accepted' = << >>
            /\ IF written
               THEN /\ files' = [files EXCEPT ![Len(files)] =
                                    @ \o encodeSets(queue) \o << "\n" >>]
                    /\ instructions_changed' = FALSE
                    /\ flushed' = [log |-> accepted,
                                   text |-> encodeSets(queue) \o << "\n" >>]
               ELSE UNCHANGED << files, instructions_changed, flushed >>
    /\ ticked' = IF ~written THEN FALSE
                  ELSE ticked \/ (channel = << >> /\ ~instructions_changed')
    /\ UNCHANGED shellVars
    /\ UNCHANGED << phase, lookup_key, lookup_value, trash, cache, current_meid,
                    limits, channel, last, acked, snapshot, ops, runs >>

\* the process ends (exit or kill): what is in memory is gone
Stop ==
    /\ phase = "running"
    /\ phase' = "stopped"
    /\ snapshot' = [clean |-> ticked /\ channel = << >>,
                    get |-> [k \in Keys |-> get(Core, k, Default).ret]]
    /\ SetCore(EmptyCore)
    /\ channel' = << >>
    /\ queue' = << >>
    /\ instructions_changed' = FALSE
    /\ last' = NoCall
    /\ acked' = [k \in Keys |-> NoAck]
    /\ accepted' = << >>
    /\ flushed' = NoFlush
    /\ ticked' = FALSE
    /\ UNCHANGED shellVars
    /\ UNCHANGED << limits, files, ops, runs >>

Next ==
    \/ Start
    \/ \E key \in RawKeys, value \in Values : Set(key, value)
    \/ \E key \in Keys : Remove(key)
    \/ \E key \in Keys, def \in Defaults : Get(key, def)
    \/ \E key \in Keys : Exist(key)
    \/ WorkerMessage
    \/ \E written \in BOOLEAN : Tick(written)
    \/ Stop

Spec == Init /\ [][Next]_vars

-----------------------------------------------------------------------------
(* Other specifications of the same machine *)

\* the configuration sets a limit on the size of an entry, or on the memory
SpecCaps == InitWith(CappedConfigs, { << >> }) /\ [][Next]_vars

\* set(key, 1) for keys that are not in the store yet: each call inserts
MaxInserts == 5

ShardKeys == { << "a" >>, << "b" >>, << "c" >>, << "d" >>, << "n" >> }

Insert(key) ==
    /\ phase = "running"
    /\ ops < MaxInserts
    /\ ~exist(Core, key)
    /\ LET done == set(Core, key, Num1)
       IN  /\ SetCore(done.core)
           /\ channel' = channel \o done.posted
           /\ last' = [op |-> "set", key |-> key, ret |-> done.ret]
    /\ ops' = ops + 1
    /\ UNCHANGED shellVars
    /\ UNCHANGED << phase, limits, queue, instructions_changed, files, acked,
                    accepted, flushed, ticked, snapshot, runs >>

NextShards == Start \/ \E key \in ShardKeys : Insert(key)

SpecShards == Init /\ [][NextShards]_vars

\* sanitizeKey called on its own (the CLI command sanitize), on short strings
\* over letters, separators, spaces and characters that are not let through
MaxKeyLen == 4

SanitizeChars == { "a", "_", " ", "!" }

SanitizeInputs == UNION { [1..n -> SanitizeChars] : n \in 0..MaxKeyLen }

Sanitize(key, trim) ==
    /\ last' = [op |-> "sanitizeKey", key |-> key, trim |-> trim,
                ret |-> sanitizeKey(key, trim)]
    /\ UNCHANGED shellVars
    /\ UNCHANGED << phase, lookup_key, lookup_value, trash, cache, current_meid,
                    limits, channel, queue, instructions_changed, files, acked,
                    accepted, flushed, ticked, snapshot, ops, runs >>

NextSanitize == \E key \in SanitizeInputs, trim \in BOOLEAN : Sanitize(key, trim)

SpecSanitize == Init /\ [][NextSanitize]_vars

\* SnowflakeCore.initMeidsAndKeys called on a database directory: the data and
\* key files of the shards. A file is known by its header, of which the model
\* keeps the version and the signature (the bytes before HDR_POS.DATA) and the
\* time (the bytes from HDR_POS.DATA on)
MaxShardIndex == 1

ShardFileNames == [kind : { "meid", "key" }, index : 0..MaxShardIndex]

Absent == [version |-> 0, signature |-> << >>, time |-> 0]

FILE_STATES == [ready |-> 0, new |-> 1, faint |-> 2, none |-> -1]

isReady(state) == state \in { FILE_STATES.ready, FILE_STATES.new }

\* the header of this build, written at the time of the startup
getHeader == [version |-> 1, signature |-> << "s" >>, time |-> 1]

\* headers found in files: of this build at an earlier time, of another
\* version, with another signature
FileHeaders ==
    { [version |-> 1, signature |-> << "s" >>, time |-> 0],
      [version |-> 2, signature |-> << "s" >>, time |-> 0],
      [version |-> 1, signature |-> << "x" >>, time |-> 0] }

ShardDirectories == [ShardFileNames -> FileHeaders \cup { Absent }]

\* meids.count of configs.yaml; 0 and less: as many as there are data files
ConfiguredCounts == { -1, 0, 1, MaxShardIndex + 1 }

\* Buffer.compare of the bytes 0 .. HDR_POS.DATA - 1
matchHeaders(buffer, header) ==
    /\ buffer.version = header.version
    /\ buffer.signature = header.signature

\* the files that getDatabaseFiles lists
listed(directory) == { f \in ShardFileNames : directory[f] # Absent }

meidsCount(directory, configured) ==
    IF configured <= 0
    THEN IF Cardinality({ f \in listed(directory) : f.kind = "meid" }) > 1
         THEN Cardinality({ f \in listed(directory) : f.kind = "meid" })
         ELSE 1
    ELSE configured

meidOf(i) == [kind |-> "meid", index |-> i]

keyOf(i) == [kind |-> "key", index |-> i]

\* header_check: no file of a shard in the range had to be created
headerCheck(directory, meids_count) ==
    \A i \in 0..(meids_count - 1) :
        directory[meidOf(i)] # Absent /\ directory[keyOf(i)] # Absent

\* the directory after the missing files of the range were written
generated(directory, meids_count) ==
    [f \in ShardFileNames |->
        IF f.index < meids_count /\ directory[f] = Absent
        THEN getHeader ELSE directory[f]]

\* #meids_data (which holds the key files too, by Object.assign(meids, keys))
meidsData(directory, meids_count) ==
    [f \in ShardFileNames |->
        IF f.index < meids_count
        THEN IF directory[meidOf(f.index)] # Absent
             THEN FILE_STATES.ready ELSE FILE_STATES.new
        ELSE IF directory[f] # Absent THEN FILE_STATES.faint
             ELSE FILE_STATES.none]

\* validateHeaders: is_valid, over the listed files
validateHeaders(files_listed, directory, data) ==
    \A f \in files_listed :
        ~( ~matchHeaders(directory[f], getHeader) /\ isReady(data[f]) )

initMeidsAndKeys(directory, configured) ==
    LET meids_count == meidsCount(directory, configured)
        header_check == headerCheck(directory, meids_count)
        after == generated(directory, meids_count)
        data == meidsData(directory, meids_count)
    IN  [before |-> directory,
         meids_count |-> meids_count,
         directory |-> after,
         meids_data |-> data,
         header_check |-> header_check,
         completed |-> header_check =>
                           validateHeaders(listed(directory), after, data)]

InitMeidsAndKeys(directory, configured) ==
    /\ phase = "stopped"
    /\ last' = [op |-> "initMeidsAndKeys",
                done |-> initMeidsAndKeys(directory, configured)]
    /\ UNCHANGED shellVars
    /\ UNCHANGED << phase, lookup_key, lookup_value, trash, cache, current_meid,
                    limits, channel, queue, instructions_changed, files, acked,
                    accepted, flushed, ticked, snapshot, ops, runs >>

NextHeaders ==
    \E directory \in ShardDirectories, configured \in ConfiguredCounts :
        InitMeidsAndKeys(directory, configured)

SpecHeaders == Init /\ [][NextHeaders]_vars

\* calls of the store with keys as a caller writes them: one that sanitizeKey
\* leaves as it is, and one from which it takes a character away
UnsanitizedKeys == { << "a" >>, << "a", "!" >> }

NextRawKeys ==
    \/ Start
    \/ \E key \in UnsanitizedKeys, value \in Values : Set(key, value)
    \/ \E key \in UnsanitizedKeys : Remove(key)
    \/ \E key \in UnsanitizedKeys, def \in Defaults : Get(key, def)
    \/ \E key \in UnsanitizedKeys : Exist(key)

SpecRawKeys == Init /\ [][NextRawKeys]_vars

SpecRotate == InitWith(RotatingConfigs, { << >> }) /\ [][Next]_vars

\* the process keeps running and the writes of the flusher succeed; the worker
\* thread handles every message posted to it, and its interval timer keeps firing
MaxLiveOps == 2

NextLive ==
    \/ Start
    \/ \E key \in RawKeys, value \in Values : ops < MaxLiveOps /\ Set(key, value)
    \/ \E key \in Keys : ops < MaxLiveOps /\ Remove(key)
    \/ \E key \in Keys, def \in Defaults : Get(key, def)
    \/ WorkerMessage
    \/ Tick(TRUE)

SpecLive ==
    Init /\ [][NextLive]_vars /\ WF_vars(WorkerMessage) /\ WF_vars(Tick(TRUE))

\* the database directory holds one backup file when the process starts
MaxLines == 3

ReplayLines ==
    { << "a", "<", "1" >>, << "a", "<", "0" >>, << "#", "a" >>,
      constructor \o << "<", "1" >>, << "#" >> \o constructor }

ReplayTexts ==
    { Flatten([i \in 1..Len(lines) |-> lines[i] \o << "\n" >>]) :
        lines \in UNION { [1..n -> ReplayLines] : n \in 1..MaxLines } }

SpecReplay == InitWith({ Unlimited }, { << text >> : text \in ReplayTexts }) /\ [][Start]_vars

\* the database directory holds one or two backup files, oldest first, whose
\* last line may lack its newline (a write that was cut short)
MaxFileLines == 2

RecoverTexts ==
    LET whole == { Flatten([i \in 1..Len(lines) |-> lines[i] \o << "\n" >>]) :
                     lines \in UNION { [1..n -> ReplayLines] : n \in 1..MaxFileLines } }
    IN  whole \cup { SubSeq(text, 1, Len(text) - 1) : text \in whole }

RecoverDirectories ==
    { << text >> : text \in RecoverTexts }
        \cup { << older, newer >> : older \in RecoverTexts, newer \in RecoverTexts }

SpecRecover == InitWith({ Unlimited }, RecoverDirectories) /\ [][Start]_vars

-----------------------------------------------------------------------------
(* The CLI server: connections, the tokens they send, the clock *)

\* Snowflake.getStatus(status_code).success
getStatus(status_code) ==
    [success |-> /\ "n" \in DOMAIN status_code
                 /\ status_code.n \in { -3, -2, -1, 0, 7 }]

\* what send(action, message_text, value, status_code) writes to the socket
Frame(action, value, status_code) ==
    [action |-> action, value |-> value, status_code |-> status_code]

\* sendState(state, value, status_code): nothing in echo mode
sendState(mode, state, value, status_code) ==
    IF mode = "echo" THEN << >> ELSE << Frame(state, value, status_code) >>

\* the branch of the "data" handler for a shell whose #access is falsy: the
\* line is taken as a token.  What it does to the shell, to the lockdown table
\* and to the session counters, the cause of the failed attempt it emits ("":
\* none), and the frames it sends
onToken(configs, table, counters, clock, shell, is_locked_down, command) ==
    LET lockdown_reported == shell.lockdown_reported
        auth == authenticate(command)
        booked == onLoginAttempt(configs, table, clock, shell.ip, FALSE, command)
        again == << Frame("authorize_again", Null, Whole(2)) >>
        \* report_lockdown()
        report(sent) ==
                  [shell |-> [shell EXCEPT !.lockdown_reported = TRUE],
                   lockdown |-> IF lockdown_reported THEN table ELSE booked,
                   sessions |-> counters,
                   cause |-> IF lockdown_reported THEN "" ELSE "lockdown",
                   ret |-> "lockdown",
                   sent |-> sent]
    IN  IF auth # False /\ ~is_locked_down
        THEN IF lockedDown(configs, table, clock, command)
             THEN report(<< >>)
             ELSE IF /\ maxConnections(auth) # -1
                     /\ tokenSessions(counters, command) >= maxConnections(auth)
                  THEN \* destroy(), then the failed attempt
                       [shell |-> ClosedShell,
                        lockdown |-> booked,
                        sessions |-> onConnectionEnd(counters, shell.token),
                        cause |-> "full_room",
                        ret |-> "full_room",
                        sent |-> sendState(shell.mode, "full_room", Str(command),
                                           Whole(-2))]
                  ELSE \* clearTimeout(this.connection_timeout)
                       [shell |-> [shell EXCEPT !.access = TRUE, !.token = command,
                                                !.timer = 0],
                        lockdown |-> table,
                        sessions |-> onShellAuthorized(counters, command),
                        cause |-> "",
                        ret |-> "authorized",
                        sent |-> << Frame("clear", Null, Whole(0)) >>
                                   \o sendState(shell.mode, "authorized",
                                                 Str(<< "a", "d", "m", "i", "n" >>), Whole(-2))]
        ELSE IF is_locked_down
             THEN report(again)
             ELSE [shell |-> shell,
                   lockdown |-> booked,
                   sessions |-> counters,
                   cause |-> "credential",
                   ret |-> "credential",
                   sent |-> again]

\* the data handler after the branch of a shell without access
tokenTaken(core, done) ==
    [shell |-> done.shell, lockdown |-> done.lockdown, sessions |-> done.sessions,
     cause |-> done.cause, ret |-> done.ret, sent |-> done.sent, core |-> core,
     posted |-> << >>, token |-> TRUE, exit |-> -1]

\* the data handler after this.#cli.exec(command, this): the exit state that
\* shell.exit sent if the executor of exit called it, then the response
responded(table, counters, shell, done) ==
    [shell |-> IF done.exit >= 0 THEN [shell EXCEPT !.access = FALSE] ELSE shell,
     lockdown |-> table,
     sessions |-> counters,
     cause |-> "",
     ret |-> "response",
     sent |-> (IF done.exit >= 0
               THEN sendState(shell.mode, "exit", Whole(done.exit), Whole(7))
               ELSE << >>)
                 \o << Frame("response", done.response.value, done.response.status) >>,
     core |-> done.core,
     posted |-> done.posted,
     token |-> FALSE,
     exit |-> done.exit]

\* a variant of the size check that lets through twice the limit
exceedsLimit_twice(size_limit, command) ==
    size_limit > 0 /\ Len(command) > 2 * size_limit

\* size_limit > 0 && command.length > size_limit
exceedsLimit(size_limit, command) ==
    size_limit > 0 /\ Len(command) > size_limit

\* command.startsWith(prefix)
startsWith(command, prefix) ==
    Len(command) >= Len(prefix) /\ SubSeq(command, 1, Len(prefix)) = prefix

\* Snowflake.isTrue of a string, for lower-case text
isTrue(value) == value \in { << "t", "r", "u", "e" >>, << "1" >>, << "y", "e", "s" >>, << "o", "n" >>, << "y" >> }

\* the "data" handler of a shell, command being the trimmed text received:
\* what it does to the shell, the lockdown table, the session counters and
\* the core, what it posts to the AOL worker, the frames it sends, the branch
\* it took (ret), whether the line was taken as a token, and the exit code
\* given to shell.exit (-1: exit was not called)
onData(configs, table, counters, clock, core, shell, command) ==
    LET is_locked_down == lockedDown(configs, table, clock, shell.ip)
        seen == IF is_locked_down THEN shell
                ELSE [shell EXCEPT !.lockdown_reported = FALSE]
        same == [shell |-> seen, lockdown |-> table, sessions |-> counters,
                 cause |-> "", ret |-> "", sent |-> << >>, core |-> core,
                 posted |-> << >>, token |-> FALSE, exit |-> -1]
    IN  IF exceedsLimit(configs.input_size, command)
        THEN [same EXCEPT !.shell = shell, !.ret = "size_limit",
                          !.sent = << Frame("size_limit", Whole(configs.input_size),
                                            Whole(9)) >>]
        ELSE IF command \in { << "@", "j", "s", "o", "n" >>, << "@", "e", "c", "h", "o" >> }
        THEN LET m == IF command = << "@", "j", "s", "o", "n" >> THEN "json" ELSE "echo"
             IN  [same EXCEPT !.shell = [seen EXCEPT !.mode = m],
                              !.ret = "mode_changed",
                              !.sent = sendState(m, "mode_changed",
                                                 Str(SubSeq(command, 2, Len(command))),
                                                 Whole(-3))]
        ELSE IF startsWith(command, << "@", "t", "i", "m", "i", "n", "g" >>)
        THEN [same EXCEPT
                !.shell = [seen EXCEPT !.timing =
                             isTrue(Trim(SubSeq(command, 8, Len(command))))],
                !.ret = "timing",
                !.sent = << Frame("response", Null, Whole(0)) >>]
        ELSE IF command \in { << "c", "l", "e", "a", "r" >>, << "c", "l", "s" >> }
        THEN [same EXCEPT !.ret = "clear",
                          !.sent = << Frame("clear", Null, Whole(0)) >>]
        ELSE IF ~shell.access
        THEN tokenTaken(core, onToken(configs, table, counters, clock, seen,
                                      is_locked_down, command))
        ELSE IF command = << >>
        THEN [same EXCEPT !.ret = "prompt"]
        ELSE responded(table, counters, seen, exec(core, command, TRUE))

\* createServer callback: a client connects from an address
Connect(c, ip) ==
    /\ ~shells[c].open
    /\ shells' = [shells EXCEPT ![c] =
                    [ClosedShell EXCEPT !.open = TRUE, !.ip = ip,
                                        !.timer = IF cli.authentication_timeout > 0
                                                  THEN cli.authentication_timeout
                                                  ELSE 0]]
    /\ last' = [op |-> "connect", connection |-> c]
    /\ UNCHANGED << cli, now, lockdown, sessions, failed, lockdown_file >>
    /\ UNCHANGED << phase, lookup_key, lookup_value, trash, cache, current_meid,
                    limits, channel, queue, instructions_changed, files, acked,
                    accepted, flushed, ticked, snapshot, ops, runs >>

\* the effects of the data handler on the server, done being what onData
\* returns
handled(c, command, subject, done) ==
    /\ shells' = [shells EXCEPT ![c] = done.shell]
    /\ lockdown' = done.lockdown
    /\ sessions' = done.sessions
    /\ lockdown_file' =
          IF cli.max_login_attempt > 0 /\ done.cause = "lockdown"
          THEN updateLockdown(cli, done.lockdown, now, lockdown_file)
          ELSE lockdown_file
    /\ SetCore(done.core)
    /\ channel' = channel \o done.posted
    /\ last' = [op |-> IF done.token THEN "token" ELSE "data",
                connection |-> c, token |-> command,
                ip |-> shells[c].ip, ret |-> done.ret, sent |-> done.sent,
                exit |-> done.exit]
    /\ failed' = IF done.token /\ done.ret # "authorized"
                 THEN [failed EXCEPT ![subject] =
                         [count |-> @.count + 1, at |-> now]]
                 ELSE failed

\* a client sends a line
Data(c, command) ==
    /\ shells[c].open
    /\ ops < MaxCommands
    /\ handled(c, command, subjectOf(cli, shells[c].ip, command),
               onData(cli, lockdown, sessions, now, Core, shells[c], command))
    /\ ops' = ops + 1
    /\ UNCHANGED << cli, now >>
    /\ UNCHANGED << phase, limits, queue, instructions_changed, files, acked,
                    accepted, flushed, ticked, snapshot, runs >>

\* the exit command of an authorized client: SnowflakeShell.exit
Exit(c) ==
    /\ shells[c].open
    /\ shells[c].access
    /\ shells' = [shells EXCEPT ![c].access = FALSE]
    /\ last' = [op |-> "exit", connection |-> c]
    /\ UNCHANGED << cli, now, lockdown, sessions, failed, lockdown_file >>
    /\ UNCHANGED << phase, lookup_key, lookup_value, trash, cache, current_meid,
                    limits, channel, queue, instructions_changed, files, acked,
                    accepted, flushed, ticked, snapshot, ops, runs >>

\* the client closes the connection: the "end" event of the socket
Disconnect(c) ==
    /\ shells[c].open
    /\ sessions' = onConnectionEnd(sessions, shells[c].token)
    /\ shells' = [shells EXCEPT ![c] = ClosedShell]
    /\ last' = [op |-> "end", connection |-> c]
    /\ UNCHANGED << cli, now, lockdown, failed, lockdown_file >>
    /\ UNCHANGED << phase, lookup_key, lookup_value, trash, cache, current_meid,
                    limits, channel, queue, instructions_changed, files, acked,
                    accepted, flushed, ticked, snapshot, ops, runs >>

\* the socket fails (the peer resets the connection): the "error" event, then
\* the handler of cli_server_connection_error
SocketError(c) ==
    /\ shells[c].open
    /\ shells' = [shells EXCEPT ![c] = ClosedShell]
    /\ last' = [op |-> "error", connection |-> c]
    /\ UNCHANGED << cli, now, lockdown, sessions, failed, lockdown_file >>
    /\ UNCHANGED << phase, lookup_key, lookup_value, trash, cache, current_meid,
                    limits, channel, queue, instructions_changed, files, acked,
                    accepted, flushed, ticked, snapshot, ops, runs >>

\* the authentication timer of a connection fires: destroy()
TimerFires(c) ==
    /\ shells[c].open
    /\ shells[c].timer > 0
    /\ sessions' = onConnectionEnd(sessions, shells[c].token)
    /\ shells' = [shells EXCEPT ![c] = ClosedShell]
    /\ last' = [op |-> "timeout", connection |-> c]
    /\ UNCHANGED << cli, now, lockdown, failed, lockdown_file >>
    /\ UNCHANGED << phase, lookup_key, lookup_value, trash, cache, current_meid,
                    limits, channel, queue, instructions_changed, files, acked,
                    accepted, flushed, ticked, snapshot, ops, runs >>

\* time passes
Advance(t) ==
    /\ t > now
    /\ now' = t
    /\ UNCHANGED << cli, lockdown, sessions, shells, failed, lockdown_file >>
    /\ UNCHANGED coreVars

\* #configs of a SnowflakeCLI before start() has read configs.yaml
DefaultCli ==
    [lockdown |-> "none", max_login_attempt |-> 0, cooldown |-> 60,
     authentication_timeout |-> 30000, input_size |-> 0]

\* the process ends and is started again: every connection is gone, and
\* SnowflakeCLI.start reads the .lockdown file if there is one (JSON.parse of
\* what JSON.stringify wrote: the same attempts and times) and calls
\* #updateLockdown before it has read the lockdown settings of configs.yaml.
\* The database directory is as it was, and the store is loaded again from it
Restart ==
    /\ runs <= MaxRestarts
    /\ runs' = runs + 1
    /\ lockdown' = IF lockdown_file # NoFile THEN lockdown_file[1]
                   ELSE [s \in Subjects |-> NoEntry]
    /\ lockdown_file' = IF lockdown_file # NoFile
                        THEN updateLockdown(DefaultCli, lockdown_file[1], now,
                                            lockdown_file)
                        ELSE NoFile
    /\ shells' = [c \in 1..MaxShells |-> ClosedShell]
    /\ sessions' = [t \in Lines |-> 0]
    /\ SetCore(loadDatabase(files))
    /\ last' = [op |-> "restart"]
    /\ UNCHANGED << cli, now, failed >>
    /\ UNCHANGED << phase, limits, channel, queue, instructions_changed, files,
                    acked, accepted, flushed, ticked, snapshot, ops >>

NextShell ==
    \/ \E c \in 1..MaxShells, ip \in Addresses : Connect(c, ip)
    \/ \E c \in 1..MaxShells, command \in TokenInputs :
          ~shells[c].access /\ Data(c, command)
    \/ \E c \in 1..MaxShells : Exit(c)
    \/ \E c \in 1..MaxShells : Disconnect(c)
    \/ \E t \in ClockTicks : Advance(t)

\* the process after SnowflakeCore.start on an empty database directory, with
\* the CLI server started
InitStartedWith(cliConfigs) ==
    /\ phase = "running"
    /\ lookup_key = loadDatabase(<< >>).key
    /\ lookup_value = loadDatabase(<< >>).value
    /\ trash = loadDatabase(<< >>).trash
    /\ cache = loadDatabase(<< >>).cache
    /\ current_meid = loadDatabase(<< >>).current_meid
    /\ limits = Unlimited
    /\ channel = << >>
    /\ queue = << >>
    /\ instructions_changed = FALSE
    /\ files = << << >> >>
    /\ last = [op |-> "start"]
    /\ acked = [k \in Keys |-> NoAck]
    /\ accepted = << >>
    /\ flushed = NoFlush
    /\ ticked = FALSE
    /\ snapshot = [clean |-> FALSE, get |-> [k \in Keys |-> Default]]
    /\ ops = 0
    /\ runs = 1
    /\ InitShellWith(cliConfigs)

\* one run of the CLI server, under each of the lockdown configurations
SpecShell == InitStartedWith(CliConfigs) /\ [][NextShell]_vars

\* runs of the CLI server with restarts of the process in between
NextRestart ==
    \/ \E c \in 1..MaxShells, ip \in Addresses : Connect(c, ip)
    \/ \E c \in 1..MaxShells, command \in { TokenOne, << "x" >> } :
          ~shells[c].access /\ Data(c, command)
    \/ \E t \in ClockTicks : Advance(t)
    \/ Restart

SpecRestart ==
    InitStartedWith({ c \in CliConfigs : c.max_login_attempt > 0 })
        /\ [][NextRestart]_vars

\* sessions from connection to close: tokens and attributes before the
\* authorization, the exit command after it, every way a connection ends
NextSession ==
    \/ \E c \in 1..MaxShells, ip \in Addresses : Connect(c, ip)
    \/ \E c \in 1..MaxShells, command \in SessionLines :
          ~shells[c].access /\ Data(c, command)
    \/ \E c \in 1..MaxShells : Exit(c)
    \/ \E c \in 1..MaxShells : Disconnect(c)
    \/ \E c \in 1..MaxShells : SocketError(c)
    \/ \E c \in 1..MaxShells : TimerFires(c)

SpecSession == InitStartedWith(SessionConfigs) /\ [][NextSession]_vars

\* one client that authorizes and sends command lines
NextDispatch ==
    \/ \E ip \in Addresses : Connect(1, ip)
    \/ \E command \in CommandLines : Data(1, command)
    \/ Disconnect(1)
    \/ SocketError(1)

SpecDispatch == InitStartedWith(DispatchConfigs) /\ [][NextDispatch]_vars

-----------------------------------------------------------------------------
(* What the claims speak of *)

\* the key is in the key table: it was inserted and has not been removed since
LiveIn(table, k) == k \in DOMAIN table /\ table[k] # Undefined

Live(k) == LiveIn(lookup_key, k)

\* the step is a call of set or of remove
IsCall(op) == ops' = ops + 1 /\ last'.op = op

Range(seq) == { seq[i] : i \in 1..Len(seq) }

\* the line is a set line that lists the key k and ends in the text of value v
LineCarries(line, k, v) ==
    LET tail == << "<" >> \o stringify(v)
        n == Len(line) - Len(tail)
    IN  /\ n >= 1
        /\ SubSeq(line, n + 1, Len(line)) = tail
        /\ k \in Range(Split(SubSeq(line, 1, n), "<"))

\* the set records for key k in a text: << line number, value >>
RecordsFor(text, k) ==
    LET lines == Split(text, "\n")
    IN  { << i, v >> \in (1..Len(lines)) \X Values : LineCarries(lines[i], k, v) }

\* some line of the text is a set line for key k with value v
TextCarries(text, k, v) ==
    LET lines == Split(text, "\n")
    IN  \E i \in 1..Len(lines) : LineCarries(lines[i], k, v)

\* the text written to the current backup file after its first n characters
WrittenSince(n) == SubSeq(CurrentFile, n + 1, Len(CurrentFile))

IsSuffix(text, whole) ==
    /\ Len(text) <= Len(whole)
    /\ SubSeq(whole, Len(whole) - Len(text) + 1, Len(whole)) = text

\* the values the worker took for key k since its last write, in order
LoggedFor(log, k) ==
    LET ofKey(entry) == entry[1] = k
        entries == SelectSeq(log, ofKey)
    IN  [i \in 1..Len(entries) |-> entries[i][2]]

\* the total size of the values in memory
RECURSIVE SumSizes(_)
SumSizes(ks) ==
    IF ks = {} THEN 0
    ELSE LET k == CHOOSE x \in ks : TRUE
         IN  toBufferLength(lookup_value[sha256(k)]) + SumSizes(ks \ {k})

MemorySize == SumSizes({ k \in Keys : Live(k) })

\* the instructions of the backup files, oldest file first
AllInstructions == parseInstructions(Flatten(files))

SameMemory(c1, c2) == c1.key = c2.key /\ c1.value = c2.value /\ c1.trash = c2.trash

\* the connections that are in READY with a token
Ready(c) == shells[c].open /\ shells[c].access
ReadyWith(token) == { c \in 1..MaxShells : Ready(c) /\ shells[c].token = token }

\* a subject is locked down: lockdown is switched on, the subject has reached
\* max_login_attempt attempts and its expiry has not passed
IsLockedDown(s) ==
    /\ cli.max_login_attempt > 0
    /\ lockdown[s].attempts >= cli.max_login_attempt
    /\ now <= lockdown[s].time

-----------------------------------------------------------------------------
(* The claims *)

\* C1: after any sequence of set and remove calls on sanitized keys, for every
\* value (the falsy ones included), get(K, d) returns the value of the last
\* successful set of K if K was not removed since, and d if K was never set or
\* was removed after its last set.
C1_GetReturnsLastSet ==
    \A k \in Keys, d \in Defaults :
        (phase = "running" /\ (runs = 1 \/ acked[k].set # NeverSet \/ acked[k].removed))
        => get(Core, k, d).ret =
              IF acked[k].set = NeverSet \/ acked[k].removed THEN d ELSE acked[k].set

\* C2: whenever set returns 1 or 2, or remove returns true, the operation
\* ({set, key, value} or {remove, key}) has been sent to the AOL worker by the
\* time the call returns.
C2_MutationsAreSentToTheAol ==
    [][ ( \/ IsCall("set") /\ last'.ret # 0
          \/ IsCall("remove") /\ last'.ret )
        => /\ Len(channel') = Len(channel) + 1
           /\ channel'[Len(channel')].action = last'.op
           /\ channel'[Len(channel')].key = sanitizeKey(last'.key, FALSE) ]_vars

\* C3: if the process stops after every acknowledged set and remove was flushed
\* (a flush tick ran after the last mutation) and is restarted, then after
\* recovery get(K, d) returns for every key what it returned just before the stop.
C3_RecoveryRestoresWhatWasFlushed ==
    (phase = "running" /\ last.op = "start" /\ snapshot.clean)
    => \A k \in Keys : get(Core, k, Default).ret = snapshot.get[k]

\* C4: while the process keeps running and the writes succeed, every set that
\* returned 1 or 2 eventually has a set line in the AOL file, written after the
\* call, that carries the key with that value or with a later value of the key.
C4_Pending(k) ==
    /\ phase = "running"
    /\ acked[k].set # NeverSet
    /\ ~TextCarries(WrittenSince(acked[k].at), k, acked[k].set)

C5_SetReturnsZeroOneTwo ==
    [][ IsCall("set") =>
          LET k == sanitizeKey(last'.key, FALSE)
          IN  /\ last'.ret = IF k = << >> THEN 0 ELSE IF Live(k) THEN 1 ELSE 2
              /\ last'.ret = 0 =>
                    UNCHANGED << lookup_key, lookup_value, current_meid, channel, queue >> ]_vars

\* C6: remove returns true exactly when the key is live; when it returns false
\* the lookup tables, the free list and the AOL queue are unchanged; when it
\* returns true the key is not live afterwards, and the next set of the key
\* returns 2.
C6_RemoveReturnsLiveness ==
    [][ /\ IsCall("remove") =>
            /\ last'.ret = Live(last'.key)
            /\ ~last'.ret =>
                  UNCHANGED << lookup_key, lookup_value, trash, channel, queue >>
            /\ last'.ret => ~LiveIn(lookup_key', last'.key)
        /\ (IsCall("set") /\ last'.key \in Keys /\ acked[last'.key].removed)
              => last'.ret = 2 ]_vars

\* C7: after any sequence of set and remove calls, exist(K) is true exactly when
\* K is live.
C7_ExistIsLiveness ==
    phase = "running" => \A k \in Keys : exist(Core, k) = Live(k)

\* C8: with a per-entry limit > 0 no stored value is larger than the limit, and
\* with a memory cap > 0 the total size in memory is not above the cap (set
\* returns 0 and changes nothing instead).
C8_CapsAreEnforced ==
    /\ limits.size > 0 =>
          \A k \in Keys : Live(k) => toBufferLength(lookup_value[sha256(k)]) <= limits.size
    /\ limits.max_memory > 0 => MemorySize <= limits.max_memory

FilesAtStart == SubSeq(files, 1, Len(files) - 1)

\* the text up to and including its last newline
RECURSIVE TerminatedPart(_)
TerminatedPart(text) ==
    IF text = << >> \/ text[Len(text)] = "\n" THEN text
    ELSE TerminatedPart(SubSeq(text, 1, Len(text) - 1))

\* C11: recovery applies the backup files in ascending order of their names
\* (older before newer) and the lines of a file in file order, whatever order
\* the directory listing returns: the recovered tables are those of the replay
\* in ascending order, so the value of the newer file wins.
C11_FilesReplayedOldestFirst ==
    (phase = "running" /\ last.op = "start") =>
        LET ordered == loadDatabase(FilesAtStart)
        IN  lookup_key = ordered.key /\ lookup_value = ordered.value

\* C12: replay ignores a final line of a backup file that is not terminated by
\* a newline: the recovered state is that of the file cut after its last newline.
C12_UnterminatedLineIgnored ==
    (phase = "running" /\ last.op = "start" /\ Len(FilesAtStart) = 1) =>
        SameMemory(Core, loadDatabase(<< TerminatedPart(FilesAtStart[1]) >>))

\* the batch the worker queued from the accepted sets, in order
RECURSIVE BatchOf(_)
BatchOf(log) ==
    IF log = << >> THEN << >>
    ELSE add(BatchOf(SubSeq(log, 1, Len(log) - 1)), log[Len(log)][1], log[Len(log)][2])

\* the assignments of the set instructions, applied in order
RECURSIVE Assigned(_)
Assigned(instructions) ==
    IF Len(instructions) < 2 THEN << >>
    ELSE LET before == Assigned(SubSeq(instructions, 1, Len(instructions) - 2))
             data == instructions[Len(instructions)]
         IN  before \o data

RECURSIVE PutEach(_, _)
PutEach(dict, entries) ==
    IF entries = << >> THEN dict
    ELSE PutEach(DictPut(dict, entries[1][1], entries[1][2]), Tail(entries))

SameMapping(d1, d2) ==
    /\ DictKeys(d1) = DictKeys(d2)
    /\ \A k \in DictKeys(d1) : DictGet(d1, k) = DictGet(d2, k)

\* C13: for every batch of queued sets, parsing the text encodeSets produced
\* for it yields only set instructions, and together they map exactly the
\* batch's keys to exactly their values.
C13_EncodedBatchParsesBack ==
    flushed # NoFlush =>
        LET instructions == parseInstructions(flushed.text)
        IN  /\ \A i \in 1..Len(instructions) : i % 2 = 1 => instructions[i] = "set"
            /\ SameMapping(PutEach(<< >>, Assigned(instructions)), BatchOf(flushed.log))

\* the number of characters in all the backup files
RECURSIVE TotalLength(_)
TotalLength(fs) == IF fs = << >> THEN 0 ELSE Len(Head(fs)) + TotalLength(Tail(fs))

\* C14: with a backup size limit > 0, a flush whose write would make the
\* current backup file exceed the limit makes the writer continue in a new
\* file; with a limit of 0, and for writes that fit, the file is not rotated.
C14_FlushRotatesAtTheLimit ==
    [][ (phase = "running" /\ phase' = "running" /\ files' # files) =>
          LET written == TotalLength(files') - TotalLength(files)
              exceeds == /\ limits.backup_size_limit > 0
                         /\ Len(CurrentFile) + written > limits.backup_size_limit
          IN  (Len(files') > Len(files)) <=> exceeds ]_vars

\* C15: new keys are assigned to the N shards in round-robin order: the i-th
\* insert of a new key since startup (i = 0, 1, 2, ...) gets shard i mod N.
C15_ShardsInRoundRobin ==
    [][ (IsCall("set") /\ last'.ret = 2) =>
            lookup_key'[last'.key].meid = ops % meids_size ]_vars

\* C16: sanitizeKey is idempotent for both trim settings, its output contains
\* only characters of [A-Za-z0-9_-], and with trim = true the output has no
\* leading or trailing underscore.
C16_SanitizeKeyIsIdempotent ==
    last.op = "sanitizeKey" =>
        /\ sanitizeKey(last.ret, last.trim) = last.ret
        /\ Range(last.ret) \subseteq KeyChars
        /\ (last.trim /\ last.ret # << >>) =>
              (Head(last.ret) # "_" /\ last.ret[Len(last.ret)] # "_")

C16_Witness ==
    /\ last.op = "sanitizeKey"
    /\ last.trim
    /\ last.key = << "_", " ", "a", "!" >>
    /\ last.ret = << "a" >>

\* C17: for every token whose max_connections is not -1, the sessions that are
\* in READY with that token at the same time never number more than
\* max_connections; a token with max_connections = 0 admits no session.
C17_SessionsWithinMaxConnections ==
    \A token \in DOMAIN AccessKeys :
        AccessKeys[token].max_connections # -1 =>
            Cardinality(ReadyWith(token)) <= AccessKeys[token].max_connections

\* C18: with lockdown mode ip or token and max_login_attempt > 0, a subject
\* that has made max_login_attempt failed login attempts is locked down at
\* every moment up to the expiry its last booked failure has set; with
\* max_login_attempt <= 0 or any other mode no subject is ever locked down.
C18_LockedUpToTheExpiry ==
    \A s \in Subjects :
        IF cli.lockdown \in { "ip", "token" } /\ cli.max_login_attempt > 0
        THEN (failed[s].count >= cli.max_login_attempt /\ now <= lockdown[s].time)
                => lockedDown(cli, lockdown, now, s)
        ELSE ~lockedDown(cli, lockdown, now, s)

C18_Witness ==
    /\ cli.lockdown = "token"
    /\ \E s \in TokenInputs :
          /\ failed[s].count = cli.max_login_attempt
          /\ now > failed[s].at
          /\ lockedDown(cli, lockdown, now, s)

\* C19: a lockdown ends after the cooldown: once more than cli_cooldown seconds
\* have passed since a subject's last failed attempt, the subject is not
\* locked down.
C19_LockdownEndsAfterCooldown ==
    \A s \in Subjects :
        (failed[s].count > 0 /\ now > failed[s].at + cli.cooldown)
            => ~lockedDown(cli, lockdown, now, s)

\* C20: in lockdown mode ip, while the address of a connection is locked down,
\* nothing the connection sends takes it from awaiting its token to READY:
\* every token from that address, a valid one included, is rejected.
C20_NoLoginFromLockedAddress ==
    [][ cli.lockdown = "ip" =>
          \A c \in 1..MaxShells :
              (shells[c].open /\ ~shells[c].access /\ IsLockedDown(shells[c].ip))
                  => ~shells'[c].access ]_vars

C20_Witness ==
    /\ cli.lockdown = "ip"
    /\ last.op = "token"
    /\ last.token = TokenOne
    /\ last.ret = "lockdown"
    /\ IsLockedDown(last.ip)
    /\ shells[last.connection].open
    /\ ~shells[last.connection].access

\* C21: with max_login_attempt > 0 and mode ip or token, once a failed login
\* attempt has been handled the .lockdown file agrees with the lockdown table:
\* if some subject is locked down the file exists and holds that subject with
\* its attempts and expiry, and if no subject is locked down there is no file.
C21_LockdownFileFollowsTheTable ==
    [][ ( /\ cli.max_login_attempt > 0
          /\ cli.lockdown \in { "ip", "token" }
          /\ ops' # ops
          /\ last'.op = "token"
          /\ last'.ret # "authorized" ) =>
            IF \E s \in Subjects : lockedDown(cli, lockdown', now, s)
            THEN /\ lockdown_file' # NoFile
                 /\ \A s \in Subjects :
                        lockedDown(cli, lockdown', now, s)
                            => lockdown_file'[1][s] = lockdown'[s]
            ELSE lockdown_file' = NoFile ]_vars

-----------------------------------------------------------------------------
(* Sessions of the CLI server *)

\* the connections that are open and were authorized with the token
sessionsOf(token) ==
    { c \in 1..MaxShells : shells[c].open /\ shells[c].token = token }

\* C22: the session count of a token is the number of open sessions that
\* were authorized with it, whichever way sessions were closed before (end of
\* the client, socket error, exit, destroy)
C22_CountIsTheOpenSessions ==
    \A token \in Lines : sessions[token] = Cardinality(sessionsOf(token))

\* this.#configs.authentication_timeout: the configured duration, clamped
authenticationTimeout(configs) ==
    IF configs.authentication_timeout > 1000
    THEN configs.authentication_timeout ELSE 1000

\* C23: a connection that has not been authorized has a timer of the
\* configured duration, at least 1000 ms, pending; an authorized one has none
C23_TimerOfAtLeastASecond ==
    \A c \in 1..MaxShells :
        shells[c].open =>
            IF shells[c].access
            THEN shells[c].timer = 0
            ELSE shells[c].token = NoToken
                    => shells[c].timer = authenticationTimeout(cli)

\* C25: a line that begins with @, sent before the authorization, is never
\* taken as a token and leaves the lockdown table as it was
C25_AttributesAreNoTokens ==
    [][ ( /\ ops' # ops
          /\ last'.op \in { "token", "data" }
          /\ ~shells[last'.connection].access
          /\ startsWith(last'.token, << "@" >>) ) =>
            /\ last'.op = "data"
            /\ lockdown' = lockdown ]_vars

\* C26: a valid token presented while its session count has reached
\* max_connections closes the session, which never has access, and the
\* rejection sent in JSON mode is the frame full_room with status code 8, a
\* failure status
C26_FullRoomIsStatusEight ==
    [][ ( /\ ops' # ops
          /\ last'.op = "token"
          /\ authenticate(last'.token) # False
          /\ maxConnections(authenticate(last'.token)) # -1
          /\ sessions[last'.token] >= maxConnections(authenticate(last'.token))
          /\ ~lockedDown(cli, lockdown, now, shells[last'.connection].ip)
          /\ ~lockedDown(cli, lockdown, now, last'.token)
          /\ shells[last'.connection].mode = "json" ) =>
            /\ ~shells'[last'.connection].open
            /\ ~shells'[last'.connection].access
            /\ Len(last'.sent) = 1
            /\ last'.sent[1].action = "full_room"
            /\ last'.sent[1].status_code = Whole(8)
            /\ ~getStatus(last'.sent[1].status_code).success ]_vars

-----------------------------------------------------------------------------
(* Commands of a session *)

\* a line was received and the data handler has run
Received == last.op \in { "token", "data" }

\* C24: with a size limit, a command text longer than the limit is answered
\* with the one frame size_limit, status 9, which is a failure status, and
\* nothing else happens: the shell (access, token, mode), the counters, the
\* lockdown table, the store and the AOL channel are as they were
C24_OversizeHasNoEffect ==
    [][ ( /\ ops' # ops
          /\ last'.op \in { "token", "data" }
          /\ cli.input_size > 0
          /\ Len(last'.token) > cli.input_size ) =>
            /\ last'.sent = << Frame("size_limit", Whole(cli.input_size), Whole(9)) >>
            /\ ~getStatus(Whole(9)).success
            /\ last'.exit = -1
            /\ shells' = shells
            /\ sessions' = sessions
            /\ lockdown' = lockdown
            /\ UNCHANGED << lookup_key, lookup_value, trash, cache, current_meid,
                            channel, queue, instructions_changed >> ]_vars

\* an authorized client has sent a set command that is over the limit
C24_Witness ==
    /\ Received
    /\ last.ret = "size_limit"
    /\ shells[last.connection].access
    /\ last.token = << "s", "e", "t", " ", "a", " ", "1", " ", "b", " ", "0" >>

\* C27: the dispatcher answers a name that is no registered command with
\* status 3, a command whose validator returns false with status 4 and the
\* store unchanged, an executor that throws with status 5; it never throws
C27_DispatchStatuses ==
    [][ ( /\ ops' # ops
          /\ last'.op = "data"
          /\ last'.ret = "response" ) =>
            LET parsed == parseCommand(last'.token)
                done == exec(Core, last'.token, TRUE)
                status == last'.sent[Len(last'.sent)].status_code
            IN  /\ ~done.throws
                /\ parsed.command \notin Commands => status = Whole(3)
                /\ ( /\ parsed.command \in Commands
                      /\ ~validate(parsed.command, parsed.args) )
                        => /\ status = Whole(4)
                           /\ UNCHANGED << lookup_key, lookup_value, trash, cache,
                                           current_meid, channel, queue >>
                /\ ( /\ parsed.command \in Commands
                      /\ validate(parsed.command, parsed.args)
                      /\ execCommand(Core, parsed.command, parsed.args,
                                     parsed.options, TRUE).throws )
                        => status = Whole(5) ]_vars

\* the command line with the alias remove replaced by its target, delete
removeAsDelete(input) ==
    IF startsWith(input, << "r", "e", "m", "o", "v", "e" >>)
    THEN << "d", "e", "l", "e", "t", "e" >> \o SubSeq(input, 7, Len(input))
    ELSE input

\* C28: a command line remove K... is answered as the line delete K... would
\* be, and does to the store and to the AOL channel what that line would do
C28_RemoveIsDelete ==
    [][ ( /\ ops' # ops
          /\ last'.op = "data"
          /\ last'.ret = "response"
          /\ parseCommand(last'.token).command = << "r", "e", "m", "o", "v", "e" >> ) =>
            LET same == exec(Core, removeAsDelete(last'.token), TRUE)
            IN  /\ last'.sent = << Frame("response", same.response.value,
                                         same.response.status) >>
                /\ SetCore(same.core)
                /\ channel' = channel \o same.posted ]_vars

\* the entries of all the JSON arguments, in order
RECURSIVE allEntries(_)
allEntries(args) ==
    IF args = << >> THEN << >>
    ELSE jsonEntries(Head(args)).entries \o allEntries(Tail(args))

\* C29: set with -j or --json and one or more arguments that are JSON objects
\* sets every entry of every argument, answers with status 0 and the number
\* of entries inserted and updated, and get then returns the given values
C29_SetJsonAppliesEveryEntry ==
    [][ ( /\ ops' # ops
          /\ last'.op = "data"
          /\ last'.ret = "response"
          /\ parseCommand(last'.token).command = << "s", "e", "t" >>
          /\ hasOption(parseCommand(last'.token).options, << "j" >>, << "j", "s", "o", "n" >>)
          /\ Len(parseCommand(last'.token).args) >= 1
          /\ \A i \in 1..Len(parseCommand(last'.token).args) :
                 jsonEntries(parseCommand(last'.token).args[i]).ok ) =>
            LET entries == allEntries(parseCommand(last'.token).args)
                after == [key |-> lookup_key', value |-> lookup_value',
                          trash |-> trash', cache |-> cache',
                          current_meid |-> current_meid']
            IN  /\ last'.sent = << Frame("response", Whole(Len(entries)), Whole(0)) >>
                /\ \A i \in 1..Len(entries) :
                       get(after, entries[i][1], UNDEF).ret = entries[i][2] ]_vars

\* the session has run the exit command and its socket is not closed yet
Exited(c) ==
    shells[c].open /\ ~shells[c].access /\ shells[c].token # NoToken

\* C30: the exit command is answered with the exit state, status 7, that
\* carries the exit code, and with no frame of a failure status; the session
\* has no access from then on, and a line it sends after that is not
\* processed: nothing is sent, authorized, counted or changed in the store
C30_ExitEndsTheSession ==
    [][ /\ ( /\ ops' # ops
              /\ last'.op = "data"
              /\ last'.ret = "response"
              /\ last'.exit >= 0 ) =>
                /\ ~shells'[last'.connection].access
                /\ \E i \in 1..Len(last'.sent) :
                       last'.sent[i] = Frame("exit", Whole(last'.exit), Whole(7))
                /\ \A i \in 1..Len(last'.sent) :
                       getStatus(last'.sent[i].status_code).success
        /\ ( /\ ops' # ops
              /\ last'.op \in { "token", "data" }
              /\ Exited(last'.connection) ) =>
                /\ last'.sent = << >>
                /\ shells' = shells
                /\ sessions' = sessions
                /\ lockdown' = lockdown
                /\ UNCHANGED << lookup_key, lookup_value, trash, cache,
                                current_meid, channel >> ]_vars

\* the lines of a chunk dispatched one after the other, each answered with
\* its response
RECURSIVE execEach(_, _)
execEach(acc, lines) ==
    IF lines = << >> THEN acc
    ELSE LET done == exec(acc.core, Head(lines), TRUE)
         IN  execEach([core |-> done.core,
                       posted |-> acc.posted \o done.posted,
                       sent |-> Append(acc.sent,
                                       Frame("response", done.response.value,
                                             done.response.status))],
                      Tail(lines))

\* C31: a chunk of several command lines received by an authorized session
\* is answered, and changes the store and the AOL channel, as its lines
\* dispatched one after the other would
C31_LinesOfAChunkAreDispatchedInOrder ==
    [][ ( /\ ops' # ops
          /\ last'.op = "data"
          /\ last'.ret = "response"
          /\ \E i \in 1..Len(last'.token) : last'.token[i] = "\n" ) =>
            LET each == execEach([core |-> Core, posted |-> << >>, sent |-> << >>],
                                 Split(last'.token, "\n"))
            IN  /\ last'.sent = each.sent
                /\ SetCore(each.core)
                /\ channel' = channel \o each.posted ]_vars

-----------------------------------------------------------------------------
(* The lookup tables and the cache of hashes *)

\* the digests that hold a value in the table of values
ValuedDigests == { h \in DOMAIN lookup_value : lookup_value[h] # Undefined }

\* the keys that are in the table of keys
LiveKeys == { k \in DOMAIN lookup_key : Live(k) }

\* C32: the digests that hold a value are the digests of the live keys, one
\* live key for each, and the digest stored with a live key is the SHA-256
\* of the key
C32_DigestsAreThoseOfTheLiveKeys ==
    /\ \A k \in LiveKeys : lookup_key[k].hash = sha256(k)
    /\ ValuedDigests = { lookup_key[k].hash : k \in LiveKeys }
    /\ \A h \in ValuedDigests :
           Cardinality({ k \in LiveKeys : lookup_key[k].hash = h }) = 1

-----------------------------------------------------------------------------
(* Login attempts under a lockdown *)

\* a token is presented on connection c while the subject of the attempt is
\* locked down
LockedAttempt(c, token) ==
    /\ shells[c].open
    /\ ~shells[c].access
    /\ lockedDown(cli, lockdown, now, subjectOf(cli, shells[c].ip, token))

\* the lockdown table of the run in which the token other was presented
\* wherever this run presented token: the record of the one is that of the
\* other (in lockdown mode ip the subject is the address, and the table is
\* the same)
tableOfOtherRun(token, other) ==
    IF cli.lockdown = "token"
    THEN [lockdown EXCEPT ![other] = lockdown[token], ![token] = lockdown[other]]
    ELSE lockdown

\* C33: what is sent in answer to a token presented under a lockdown is what
\* is sent in the run that differs in the validity of the token only
C33_LockedAttemptsLookAlike ==
    [][ ( /\ ops' # ops
          /\ last'.op = "token"
          /\ LockedAttempt(last'.connection, last'.token) ) =>
            \A other \in TokenInputs :
                (authenticate(other) = False) # (authenticate(last'.token) = False)
                    => onData(cli, tableOfOtherRun(last'.token, other), sessions,
                              now, Core, shells[last'.connection], other).sent
                         = last'.sent ]_vars

\* C34: a token presented while the subject of the attempt is locked down
\* leaves the attempts and the expiry of the subject as they were
C34_LockedAttemptIsNotCounted ==
    [][ ( /\ ops' # ops
          /\ last'.op = "token"
          /\ LockedAttempt(last'.connection, last'.token) ) =>
            LET subject == subjectOf(cli, last'.ip, last'.token)
            IN  lockdown'[subject] = lockdown[subject] ]_vars

\* C35: a subject that is locked down when the process ends is locked down
\* when it has started again, and a .lockdown file that holds a locked
\* subject is still there
C35_LockdownSurvivesRestarts ==
    [][ ( /\ runs' # runs
          /\ last'.op = "restart"
          /\ cli.lockdown \in { "ip", "token" } ) =>
            /\ \A s \in Subjects :
                   lockedDown(cli, lockdown, now, s)
                       => lockedDown(cli, lockdown', now, s)
            /\ ( /\ lockdown_file # NoFile
                  /\ anyLockedDown(cli, lockdown_file[1], now) )
                    => lockdown_file' = lockdown_file ]_vars

-----------------------------------------------------------------------------
(* An append to the backup file that fails *)

\* C36: while there are instructions waiting to be written, a step of the
\* running process in which the worker takes no message and nothing is
\* appended to the backup file (a tick whose write fails is such a step)
\* leaves the waiting instructions in the queue and the flag of changes set
C36_FailedWriteKeepsTheQueue ==
    [][ ( /\ phase = "running" /\ phase' = "running"
          /\ instructions_changed
          /\ queue # << >>
          /\ channel' = channel
          /\ files' = files ) =>
            /\ queue' = queue
            /\ instructions_changed' ]_vars

-----------------------------------------------------------------------------
(* The headers of the shard files at startup *)

\* the files of the range that were in the directory before the startup
ReadyBefore(done) ==
    { f \in ShardFileNames :
        f.index < done.meids_count /\ done.before[f] # Absent }

\* C37: when initMeidsAndKeys has completed, every file of a shard in the
\* range that was in the directory before has the version and the signature
\* of the reference header, whether or not other files had to be created
C37_ReadyFilesMatchTheHeader ==
    last.op = "initMeidsAndKeys" /\ last.done.completed =>
        \A f \in ReadyBefore(last.done) :
            matchHeaders(last.done.before[f], getHeader)

-----------------------------------------------------------------------------
(* The cache of hashes *)

\* C38: the keys whose hash is kept in the cache are live keys of the store
C38_CachedKeysAreLive ==
    phase = "running" => cache \subseteq LiveKeys

-----------------------------------------------------------------------------
(* The key of an entry, as the caller writes it *)

\* C39: after set(k, v) has returned 1 or 2 for a key k whose sanitized form
\* is not empty, get(k, d) returns v, exist(k) is true and remove(k) returns
\* true, for k as it was given to set
C39_OneKeyForAllCalls ==
    ( /\ phase = "running"
      /\ last.op = "set"
      /\ last.ret # 0
      /\ sanitizeKey(last.key, FALSE) # << >> ) =>
        /\ get(Core, last.key, Default).ret
               = acked[sanitizeKey(last.key, FALSE)].set
        /\ exist(Core, last.key)
        /\ remove(Core, last.key).ret = TRUE

-----------------------------------------------------------------------------
(* The status code of a response *)

\* the status codes that getStatus gives a name other than "unknown"
NamedStatuses == { Whole(n) : n \in -3..9 }

\* C40: the status code of every frame sent in answer to a line of an
\* authorized client is a whole number from -3 to 9
C40_StatusIsOfTheTable ==
    [][ ( /\ ops' # ops
          /\ last'.op = "data" ) =>
            \A i \in DOMAIN last'.sent :
                last'.sent[i].status_code \in NamedStatuses ]_vars

=============================================================================
